---- MODULE Spec2Model ----
(***************************************************************************)
(* cursor-opencode-auth: the OpenAI-compatible bridge server               *)
(* (packages/cursor-openai-bridge), the process primitive `run` and the    *)
(* cursor_cli_patch worktree pipeline (packages/opencode-plugin-cursor).   *)
(*                                                                         *)
(* Text is modelled as a sequence of atoms (one-character strings, or one  *)
(* word where only the word's identity matters).  `undefined` is the       *)
(* distinguished sequence Undef; the empty string is << >>.                *)
(***************************************************************************)
EXTENDS Integers, Sequences, FiniteSets, TLC

\* ---------------------------------------------------------------- bounds
MaxInFlight == 2      \* request slots handled concurrently by the server
MaxHdrLen == 3        \* atoms in an Authorization header
MaxClock == 2         \* clock readings are k or FreshWindow + k, k <= MaxClock
MaxCalls == 2         \* cursor_cli_patch calls, each made once
MaxMessages == 2      \* messages of a chat request given to the prompt builder
MaxParts == 2         \* parts of an array-valued message content
MaxLines == 3         \* lines of a model listing given to the parser
MaxStarts == 2        \* cursor_bridge_start calls in progress at once
MaxBridges == 3       \* bridge processes spawned in all
MaxRuns == 2          \* run(...) invocations, each made once
MaxEnsures == 1       \* ensureBridgeProcess calls in progress at once
MaxStops == 2         \* stopBridgeByPidFile calls in progress at once
MaxStopStarts == 1    \* cursor_bridge_start calls beside the stop calls

\* ------------------------------------------------------------ text atoms
Undef == <<"undefined">>
Auto == <<"a", "u", "t", "o">>
Truthy(s) == s # Undef /\ s # <<>>

IsSpace(a) == a \in {" ", "\n"}

RECURSIVE TrimStart(_)
TrimStart(s) ==
  IF s = <<>> THEN <<>>
  ELSE IF IsSpace(Head(s)) THEN TrimStart(Tail(s)) ELSE s

RECURSIVE TrimEnd(_)
TrimEnd(s) ==
  IF s = <<>> THEN <<>>
  ELSE IF IsSpace(s[Len(s)]) THEN TrimEnd(SubSeq(s, 1, Len(s) - 1)) ELSE s

\* faulty variant: only leading whitespace is removed
TrimLeft(s) == TrimStart(s)

Trim(s) == TrimEnd(TrimStart(s))

\* the text after the last "/" of s: parts[parts.length - 1] of s.split("/")
RECURSIVE LastPart(_)
LastPart(s) ==
  IF \E i \in 1..Len(s) : s[i] = "/"
  THEN LastPart(SubSeq(s, (CHOOSE i \in 1..Len(s) : s[i] = "/") + 1, Len(s)))
  ELSE s

normalizeModelId(raw) ==
  IF ~Truthy(raw) THEN Undef
  ELSE LET trimmed == Trim(raw) IN
       IF trimmed = <<>> THEN Undef
       ELSE IF LastPart(trimmed) = <<>> THEN Undef ELSE LastPart(trimmed)

\* ------------------------------------------------------------ http.ts
IsBearerWord(a) == a \in {"Bearer", "bearer"}

RECURSIVE SpaceRun(_, _)
SpaceRun(h, i) ==
  IF i <= Len(h) /\ IsSpace(h[i]) THEN 1 + SpaceRun(h, i + 1) ELSE 0

\* faulty variant: the scheme word is not checked
extractAnyScheme(h) ==
  IF h = Undef \/ h = <<>> THEN Undef
  ELSE LET n == SpaceRun(h, 2) IN
       IF n = 0 THEN Undef
       ELSE IF 1 + n < Len(h) THEN SubSeq(h, 2 + n, Len(h))
       ELSE IF n >= 2 THEN <<" ">>
       ELSE Undef

\* /^Bearer\s+(.+)$/i : \s+ is greedy but gives one space back when nothing
\* else is left for (.+)
extractBearerToken(h) ==
  IF h = Undef \/ h = <<>> THEN Undef
  ELSE IF ~IsBearerWord(h[1]) THEN Undef
  ELSE LET n == SpaceRun(h, 2) IN
       IF n = 0 THEN Undef
       ELSE IF 1 + n < Len(h) THEN SubSeq(h, 2 + n, Len(h))
       ELSE IF n >= 2 THEN <<" ">>
       ELSE Undef

\* ------------------------------------------------------------ constants
FreshWindow == 300000         \* 5 * 60_000
ListTimeoutMs == 60000
DefaultTimeoutMs == 300000
NullCode == -1                \* the close event's code when a signal ended the child
NoExit == -2                  \* no exit code (nothing closed yet)

Slots == 1..MaxInFlight
ExitCodes == {0, 1}
Texts == {<<>>, <<" ", "x", " ">>}
HdrAtoms == {"Bearer", "bearer", " ", "K", "X"}
Methods == {"GET", "POST"}
HealthPath == "/health"
ModelsPath == "/v1/models"
ChatPath == "/v1/chat/completions"
Paths == {HealthPath, ModelsPath, ChatPath, "/v1/other"}
PromptWord == <<"prompt">>
WorkspaceWord == <<"workspace">>

RECURSIVE SeqsUpTo(_, _)
SeqsUpTo(S, n) ==
  IF n = 0 THEN {<<>>}
  ELSE LET P == SeqsUpTo(S, n - 1) IN P \cup {Append(p, a) : p \in P, a \in S}

Headers == {Undef} \cup SeqsUpTo(HdrAtoms, MaxHdrLen)

\* model identifiers a client may send: [v/] segment [pad or /]
Segments == {<<>>, Auto, <<"g">>, <<"h">>}
RawModels ==
  {Undef} \cup
  {pre \o seg \o pr :
     pre \in {<<>>, <<"v", "/">>}, seg \in Segments,
     pr \in {<<>>, <<" ">>, <<"/">>}}

\* a request body: malformed JSON, or {model?, stream?}
Bodies == [ok : {TRUE}, model : RawModels, stream : BOOLEAN]
            \cup {[ok |-> FALSE, model |-> Undef, stream |-> FALSE]}

\* a line "<id> - <name>" of the model listing
ListLine(id, name) == id \o <<" ", "-", " ">> \o name

\* what `agent --list-models` may print: nothing, one model, or two models
\* around a line of other text
Listings ==
  {<<>>,
   ListLine(<<"m", "1">>, <<"O", "n", "e">>),
   ListLine(<<"m", "1">>, <<"O", "n", "e">>) \o <<"\n", "j", "u", "n", "k", "\n">>
     \o ListLine(<<"m", "2">>, <<"T", "w", "o">>)}

\* CURSOR_BRIDGE_DEFAULT_MODEL: unset, empty, blank, or naming a model
EnvModels ==
  {Undef, <<>>, <<" ">>, <<"v", "/">>, <<"d">>, <<"v", "/", "d">>,
   <<" ", "a", "u", "t", "o">>}

\* normalizeModelId(process.env.CURSOR_BRIDGE_DEFAULT_MODEL) || "auto"
DefaultModel(env) ==
  IF Truthy(normalizeModelId(env)) THEN normalizeModelId(env) ELSE Auto

Configs ==
  [requiredKey : {Undef, <<"K">>},
   defaultModel : {DefaultModel(env) : env \in EnvModels},
   mode : {"ask", "agent"}, force : BOOLEAN, approveMcps : BOOLEAN,
   strictModel : BOOLEAN, timeoutMs : {0, DefaultTimeoutMs}]

VARIABLES
  config,              \* BridgeConfig, fixed when the server starts
  lastRequestedModel,  \* the pinning state
  modelCache,          \* [present, at, models]
  clock,               \* Date.now()
  req,                 \* per slot: the request being handled and its child
  lastExplicit,        \* history: the last explicit model a chat request carried
  call,                \* per cursor_cli_patch call: its position, locals and child
  fs,                  \* the temporary directories that exist
  worktrees,           \* the directories registered as worktrees of the repository
  dirty,               \* the worktrees holding uncommitted changes
  chatMessages,        \* buildPromptFromMessages: its argument
  builtPrompt,         \* buildPromptFromMessages: its result, once computed
  listing,             \* parseCursorCliModels: its argument
  parsed,              \* parseCursorCliModels: its result, once computed
  starter,            \* per cursor_bridge_start call: its position and locals
  bridges,             \* per pid: the bridge process spawned under it
  pidFile,             \* the pid in cursor-openai-bridge.pid
  runs,                \* per run(...) invocation: its child, timer and promise
  ensurer,             \* per ensureBridgeProcess call: its position and locals
  stopper              \* per stopBridgeByPidFile call: its position and locals

patchVars == <<call, fs, worktrees, dirty>>
serverVars ==
  <<config, lastRequestedModel, modelCache, clock, req, lastExplicit>>
fnVars == <<chatMessages, builtPrompt, listing, parsed>>
startVars == <<starter, bridges, pidFile>>
runVars == <<runs>>
helperVars == <<ensurer, stopper>>
vars == <<serverVars, patchVars, fnVars, startVars, runVars, helperVars>>

NoCache == [present |-> FALSE, at |-> 0, models |-> <<>>]
NoResp ==
  [status |-> 0, code |-> "none", exit |-> NoExit, text |-> <<>>,
   object |-> "none", model |-> Undef, content |-> <<>>, data |-> <<>>,
   frames |-> <<>>, ended |-> FALSE]
IdleReq ==
  [pc |-> "idle", method |-> "none", path |-> "none", route |-> "none",
   stream |-> FALSE, args |-> <<>>,
   requested |-> Undef, model |-> Undef, proc |-> "none", timer |-> "none", spawns |-> 0,
   kills |-> 0, closeCode |-> NoExit, now |-> 0, overlapped |-> FALSE,
   doneBefore |-> {}, resp |-> NoResp]

\* ------------------------------------------------------------ process.ts: run
\* faulty variant: no timer is ever set
TimerNever(timeoutMs) == FALSE

\* setTimeout is armed only for a positive number
TimerArmed(timeoutMs) == timeoutMs > 0

\* resolve({ code: code ?? 0, stdout, stderr })
CloseCode(code) == IF code = NullCode THEN 0 ELSE code

\* faulty variant: the exit code is dropped
RunResultNoCode(code, stdout, stderr) ==
  [code |-> 0, stdout |-> stdout, stderr |-> stderr]

RunResult(code, stdout, stderr) ==
  [code |-> CloseCode(code), stdout |-> stdout, stderr |-> stderr]

\* an error of the launch other than ENOENT, by its message
SpawnError == <<"spawn">>

\* faulty variant: every launch failure is reported as a missing command
RejectionNotFound(enoent) == <<"Command not found">>

\* child.on("error"): the message of the error the promise rejects with
Rejection(enoent) ==
  IF enoent THEN <<"Command not found">> ELSE SpawnError

\* spawn(cmd, args, ...) and the timer, as fields of the slot's record
Spawned(rec, timeoutMs) ==
  [rec EXCEPT !.proc = "running",
              !.timer = IF TimerArmed(timeoutMs) THEN "armed" ELSE "none",
              !.spawns = @ + 1]

\* the 'close' and 'error' handlers clear the timer
Settled(rec, how, code) ==
  [rec EXCEPT !.proc = how,
              !.timer = IF @ = "armed" THEN "cleared" ELSE @,
              !.closeCode = code]

\* json(res, status, body)
\* faulty variant: the body is written but the response is never ended
JsonUnended(status, code, exit, text) ==
  [NoResp EXCEPT !.status = status, !.code = code, !.exit = exit,
                 !.text = text, !.object = "error"]

Json(status, code, exit, text) ==
  [NoResp EXCEPT !.status = status, !.code = code, !.exit = exit,
                 !.text = text, !.object = "error", !.ended = TRUE]

\* ------------------------------------------------------------ cursorCli.ts
\* the character classes of the line pattern
\*   /^([A-Za-z0-9][A-Za-z0-9._:/-]*)\s+-\s+(.*)$/
Alnum ==
  {"m", "n", "1", "2", "A", "B", "c", "d", "O", "T", "e", "j", "k", "o", "u",
   "w"}
IdAtoms == Alnum \cup {".", "_", ":", "/", "-"}
SpaceAtoms == {" ", "\n"}

\* how many positions of s, from i on, hold atoms of S without a break
Span(s, i, S) ==
  LET stops == {k \in i..Len(s) : s[k] \notin S}
  IN IF stops = {} THEN (IF i > Len(s) THEN 0 ELSE Len(s) - i + 1)
     ELSE (CHOOSE k \in stops : \A l \in stops : k <= l) - i

\* output.split(/\r?\n/g)
RECURSIVE SplitLines(_)
SplitLines(text) ==
  LET breaks == {k \in 1..Len(text) : text[k] = "\n"}
  IN IF breaks = {} THEN <<text>>
     ELSE LET n == CHOOSE k \in breaks : \A l \in breaks : k <= l
          IN <<SubSeq(text, 1, n - 1)>>
               \o SplitLines(SubSeq(text, n + 1, Len(text)))

\* line.match(...): the identifier is the longest run of identifier
\* characters, then white space, "-", white space, and the rest of the line
MatchLine(line) ==
  LET n == IF line # <<>> /\ line[1] \in Alnum
           THEN 1 + Span(line, 2, IdAtoms) ELSE 0
      a == Span(line, n + 1, SpaceAtoms)
      b == Span(line, n + a + 2, SpaceAtoms)
  IN IF n >= 1 /\ a >= 1 /\ n + a + 1 <= Len(line) /\ line[n + a + 1] = "-"
        /\ b >= 1
     THEN [ok |-> TRUE, id |-> SubSeq(line, 1, n),
           rawName |-> SubSeq(line, n + a + b + 2, Len(line))]
     ELSE [ok |-> FALSE, id |-> <<>>, rawName |-> <<>>]

\* rawName.replace(/\s*\([^)]*\)\s*$/g, ""): the leftmost "(" that is closed
\* by a ")" with nothing but white space after it, and the white space
\* before that "(", are cut off with all that follows
StripParen(rawName) ==
  LET ends == {j \in 1..Len(rawName) :
                 /\ rawName[j] = ")"
                 /\ \A k \in (j + 1)..Len(rawName) : rawName[k] \in SpaceAtoms}
      opens == {k \in 1..Len(rawName) :
                  /\ rawName[k] = "("
                  /\ \E j \in ends :
                       /\ k < j
                       /\ \A l \in (k + 1)..(j - 1) : rawName[l] # ")"}
  IN IF opens = {} THEN rawName
     ELSE LET k == CHOOSE o \in opens : \A q \in opens : o <= q
              lead == {i \in 1..k : \A l \in i..(k - 1) : rawName[l] \in SpaceAtoms}
              start == CHOOSE i \in lead : \A q \in lead : i <= q
          IN SubSeq(rawName, 1, start - 1)

\* models.push({ id, name: name || id })
ModelOf(match) ==
  LET name == Trim(StripParen(match.rawName))
  IN [id |-> match.id, name |-> IF name = <<>> THEN match.id ELSE name]

\* byId.set(m.id, m): a known id keeps its place and takes the new entry
\* faulty variant: a known id is taken out and entered again at the end
MapSetAtEnd(entries, m) ==
  Append(SelectSeq(entries, LAMBDA e : e.id # m.id), m)

MapSet(entries, m) ==
  IF \E i \in 1..Len(entries) : entries[i].id = m.id
  THEN [i \in 1..Len(entries) |->
          IF entries[i].id = m.id THEN m ELSE entries[i]]
  ELSE Append(entries, m)

RECURSIVE MapOf(_, _)
MapOf(entries, models) ==
  IF models = <<>> THEN entries
  ELSE MapOf(MapSet(entries, Head(models)), Tail(models))

Recognized(line) == MatchLine(line).ok

parseCursorCliModels(output) ==
  LET split == SplitLines(output)
      lines == [i \in 1..Len(split) |-> Trim(split[i])]
      matched == SelectSeq(lines, Recognized)
      models == [i \in 1..Len(matched) |-> ModelOf(MatchLine(matched[i]))]
  IN MapOf(<<>>, models)

\* ------------------------------------------------------------ server.ts
Unauthorized(hdr) ==
  Truthy(config.requiredKey) /\ extractBearerToken(hdr) # config.requiredKey

\* faulty variant: an entry exactly FreshWindow old is stale already
IsStaleAtWindow(cache, now) == ~cache.present \/ now - cache.at >= FreshWindow

\* faulty variant: the comparison is turned around
IsStaleInverted(cache, now) == ~cache.present \/ now - cache.at < FreshWindow

IsStale(cache, now) == ~cache.present \/ now - cache.at > FreshWindow

\* faulty variant: "auto" counts as an explicit model
ExplicitOrAuto(requested) == IF Truthy(requested) THEN requested ELSE Undef

Explicit(requested) ==
  IF Truthy(requested) /\ requested # Auto THEN requested ELSE Undef

\* faulty variant: the strict-pinning step is skipped
ResolveModelLoose(requested, pinned, cfg) ==
  IF Truthy(Explicit(requested)) THEN Explicit(requested)
  ELSE IF Truthy(requested) THEN requested
  ELSE IF Truthy(pinned) THEN pinned
  ELSE cfg.defaultModel

\* faulty variant: no default closes the chain
ResolveModelNoDefault(requested, pinned, cfg) ==
  IF Truthy(Explicit(requested)) THEN Explicit(requested)
  ELSE IF cfg.strictModel /\ Truthy(pinned) THEN pinned
  ELSE IF Truthy(requested) THEN requested
  ELSE pinned

\* explicitModel || (strict ? pinned : undefined) || requested || pinned || default
ResolveModel(requested, pinned, cfg) ==
  IF Truthy(Explicit(requested)) THEN Explicit(requested)
  ELSE IF cfg.strictModel /\ Truthy(pinned) THEN pinned
  ELSE IF Truthy(requested) THEN requested
  ELSE IF Truthy(pinned) THEN pinned
  ELSE cfg.defaultModel

\* faulty variant: only the first explicit model is ever pinned
PinnedOnce(requested, pinned) ==
  IF Truthy(pinned) THEN pinned
  ELSE IF Truthy(Explicit(requested)) THEN Explicit(requested) ELSE pinned

\* if (explicitModel) lastRequestedModel = explicitModel
\* faulty variant: every chat request overwrites the pinning state
PinnedAlways(requested, pinned) == Explicit(requested)

Pinned(requested, pinned) ==
  IF Truthy(Explicit(requested)) THEN Explicit(requested) ELSE pinned

\* faulty variant: --mode is passed for the agent mode too
ChatArgsWithMode(cfg, model, prompt) ==
  <<(<<"--print">>)>>
    \o (IF cfg.approveMcps THEN <<(<<"--approve-mcps">>)>> ELSE <<>>)
    \o (IF cfg.force THEN <<(<<"--force">>)>> ELSE <<>>)
    \o <<(<<"--mode">>), <<cfg.mode>>>>
    \o <<(<<"--workspace">>), WorkspaceWord>>
    \o <<(<<"--model">>), model>>
    \o <<(<<"--output-format">>), <<"text">>>>
    \o <<prompt>>

ChatArgs(cfg, model, prompt) ==
  <<(<<"--print">>)>>
    \o (IF cfg.approveMcps THEN <<(<<"--approve-mcps">>)>> ELSE <<>>)
    \o (IF cfg.force THEN <<(<<"--force">>)>> ELSE <<>>)
    \o (IF cfg.mode # "agent" THEN <<(<<"--mode">>), <<cfg.mode>>>> ELSE <<>>)
    \o <<(<<"--workspace">>), WorkspaceWord>>
    \o <<(<<"--model">>), model>>
    \o <<(<<"--output-format">>), <<"text">>>>
    \o <<prompt>>

\* the word that follows "--model" in an argument vector
ModelArg(args) ==
  IF \E i \in 1..(Len(args) - 1) : args[i] = <<"--model">>
  THEN args[(CHOOSE i \in 1..(Len(args) - 1) : args[i] = <<"--model">>) + 1]
  ELSE Undef

Frame(type, content) == [type |-> type, content |-> content]

SseFrames(content) ==
  <<Frame("delta", content), Frame("stop", <<>>), Frame("[DONE]", <<>>)>>

\* faulty variant: the response names the configured default model
CompletionOfDefault(stream, model, content) ==
  [NoResp EXCEPT !.status = 200,
                 !.object = IF stream THEN "chat.completion.chunk"
                            ELSE "chat.completion",
                 !.model = config.defaultModel,
                 !.content = content,
                 !.frames = IF stream THEN SseFrames(content) ELSE <<>>,
                 !.ended = TRUE]

Completion(stream, model, content) ==
  [NoResp EXCEPT !.status = 200,
                 !.object = IF stream THEN "chat.completion.chunk"
                            ELSE "chat.completion",
                 !.model = model,
                 !.content = content,
                 !.frames = IF stream THEN SseFrames(content) ELSE <<>>,
                 !.ended = TRUE]

ModelList(models) ==
  [NoResp EXCEPT !.status = 200, !.object = "list", !.data = models,
                 !.ended = TRUE]

\* the response is written and the handler returns: its locals are gone
Answer(r, rec, resp) ==
  req' = [req EXCEPT ![r] =
            [IdleReq EXCEPT !.pc = "done", !.method = rec.method,
                            !.path = rec.path, !.route = rec.route,
                            !.spawns = rec.spawns, !.now = rec.now,
                            !.overlapped = rec.overlapped,
                            !.doneBefore = rec.doneBefore,
                            !.resp = resp]]

\* faulty variant: no listing is started while another one is in flight
ModelsStartShared(r) ==
  LET now == clock
      fetching == {s \in Slots : req[s].pc = "listing"}
      base == [IdleReq EXCEPT
                 !.method = "GET", !.path = ModelsPath,
                 !.route = "models", !.now = now,
                 !.doneBefore = {s \in Slots : req[s].pc = "done"
                                                /\ req[s].route = "models"}]
  IN IF IsStale(modelCache, now) /\ fetching = {}
     THEN req' = [s \in Slots |->
                    IF s = r
                    THEN [Spawned(base, ListTimeoutMs) EXCEPT
                            !.pc = "listing",
                            !.args = <<(<<"--list-models">>)>>,
                            !.overlapped = fetching # {}]
                    ELSE req[s]]
     ELSE Answer(r, base, ModelList(modelCache.models))

\* GET /v1/models up to its first await
ModelsStart(r) ==
  LET now == clock
      fetching == {s \in Slots : req[s].pc = "listing"}
      base == [IdleReq EXCEPT
                 !.method = "GET", !.path = ModelsPath,
                 !.route = "models", !.now = now,
                 !.doneBefore = {s \in Slots : req[s].pc = "done"
                                                /\ req[s].route = "models"}]
  IN IF IsStale(modelCache, now)
     THEN req' = [s \in Slots |->
                    IF s = r
                    THEN [Spawned(base, ListTimeoutMs) EXCEPT
                            !.pc = "listing",
                            !.args = <<(<<"--list-models">>)>>,
                            !.overlapped = fetching # {}]
                    ELSE IF s \in fetching
                    THEN [req[s] EXCEPT !.overlapped = TRUE]
                    ELSE req[s]]
     ELSE Answer(r, base, ModelList(modelCache.models))

\* faulty variant: the routes are matched on the path alone
HandleRequestAnyMethod(r, method, path, hdr) ==
  /\ req[r].pc = "idle"
  /\ \A s \in Slots : s < r => req[s].pc # "idle"
  /\ UNCHANGED <<fnVars, runVars, helperVars, startVars, patchVars, config, lastRequestedModel, modelCache, clock, lastExplicit>>
  /\ IF Unauthorized(hdr)
     THEN Answer(r, [IdleReq EXCEPT !.method = method, !.path = path,
                                  !.route = "rejected"],
                 Json(401, "unauthorized", NoExit, <<>>))
     ELSE IF path = HealthPath
     THEN Answer(r, [IdleReq EXCEPT !.method = method, !.path = path,
                                  !.route = "health"],
                 [Json(200, "none", NoExit, <<>>) EXCEPT !.object = "health"])
     ELSE IF path = ModelsPath
     THEN ModelsStart(r)
     ELSE IF path = ChatPath
     THEN req' = [req EXCEPT ![r] = [IdleReq EXCEPT !.method = method,
                                                    !.path = path,
                                                    !.route = "chat",
                                                    !.pc = "body"]]
     ELSE Answer(r, [IdleReq EXCEPT !.method = method, !.path = path,
                                  !.route = "other"],
                 Json(404, "not_found", NoExit, <<>>))

\* the request handler from its entry to its first await
HandleRequest(r, method, path, hdr) ==
  /\ req[r].pc = "idle"
  /\ \A s \in Slots : s < r => req[s].pc # "idle"
  /\ UNCHANGED <<fnVars, runVars, helperVars, startVars, patchVars, config, lastRequestedModel, modelCache, clock, lastExplicit>>
  /\ IF Unauthorized(hdr)
     THEN Answer(r, [IdleReq EXCEPT !.method = method, !.path = path,
                                  !.route = "rejected"],
                 Json(401, "unauthorized", NoExit, <<>>))
     ELSE IF method = "GET" /\ path = HealthPath
     THEN Answer(r, [IdleReq EXCEPT !.method = method, !.path = path,
                                  !.route = "health"],
                 [Json(200, "none", NoExit, <<>>) EXCEPT !.object = "health"])
     ELSE IF method = "GET" /\ path = ModelsPath
     THEN ModelsStart(r)
     ELSE IF method = "POST" /\ path = ChatPath
     THEN req' = [req EXCEPT ![r] = [IdleReq EXCEPT !.method = method,
                                                    !.path = path,
                                                    !.route = "chat",
                                                    !.pc = "body"]]
     ELSE Answer(r, [IdleReq EXCEPT !.method = method, !.path = path,
                                  !.route = "other"],
                 Json(404, "not_found", NoExit, <<>>))

\* ------------------------------------------------------------ actions
\* any request line with any Authorization header
Request(r) ==
  \E method \in Methods, path \in Paths, hdr \in Headers :
    HandleRequest(r, method, path, hdr)

ChatRequest(r) == HandleRequest(r, "POST", ChatPath, Undef)

ModelsRequest(r) == HandleRequest(r, "GET", ModelsPath, Undef)

\* POST /v1/chat/completions from the end of readBody to `await run(...)`
ChatBody(r, body) ==
  /\ req[r].pc = "body"
  /\ UNCHANGED <<fnVars, runVars, helperVars, startVars, patchVars, config, modelCache, clock>>
  /\ IF ~body.ok
     THEN /\ Answer(r, req[r], Json(500, "internal_error", NoExit, <<"JSON">>))
          /\ UNCHANGED <<lastRequestedModel, lastExplicit>>
     ELSE LET requested == normalizeModelId(body.model)
              pinned == Pinned(requested, lastRequestedModel)
              model == ResolveModel(requested, pinned, config)
          IN /\ lastRequestedModel' = pinned
             /\ lastExplicit' = IF requested \notin {Undef, Auto}
                                THEN requested ELSE lastExplicit
             /\ req' = [req EXCEPT ![r] =
                          [Spawned(req[r], config.timeoutMs) EXCEPT
                             !.pc = "agent",
                             !.stream = body.stream,
                             !.requested = requested,
                             !.model = model,
                             !.args = ChatArgs(config, model, PromptWord)]]

\* setTimeout(() => child.kill("SIGKILL"), timeoutMs)
TimerFire(r) ==
  /\ req[r].timer = "armed"
  /\ req[r].proc = "running"
  /\ req' = [req EXCEPT ![r].timer = "fired", ![r].proc = "killed",
                        ![r].kills = @ + 1]
  /\ UNCHANGED <<fnVars, runVars, helperVars, startVars, patchVars, config, lastRequestedModel, modelCache, clock, lastExplicit>>

\* the close codes the child's state allows: its own exit code, or null
\* once SIGKILL ended it
CloseCodes(rec) == IF rec.proc = "killed" THEN {NullCode} ELSE ExitCodes

\* child.on("error"): the promise rejects, the outermost catch answers
ChildError(r, enoent) ==
  /\ req[r].pc \in {"agent", "listing"}
  /\ req[r].proc = "running"
  /\ Answer(r, Settled(req[r], "failed", NoExit),
            Json(500, "internal_error", NoExit, Rejection(enoent)))
  /\ UNCHANGED <<fnVars, runVars, helperVars, startVars, patchVars, config, lastRequestedModel, modelCache, clock, lastExplicit>>

\* faulty variant: a failed agent takes the pin back
ChatCloseRollsBack(r, code, stdout, stderr) ==
  /\ req[r].pc = "agent"
  /\ req[r].proc \in {"running", "killed"}
  /\ code \in CloseCodes(req[r])
  /\ LET out == RunResult(code, stdout, stderr)
         rec == Settled(req[r], "closed", code)
     IN IF out.code # 0
        THEN /\ Answer(r, rec, Json(500, "cursor_cli_error", out.code,
                                    Trim(out.stderr)))
             /\ lastRequestedModel' = Undef
        ELSE /\ Answer(r, rec, Completion(req[r].stream, req[r].model,
                                          Trim(out.stdout)))
             /\ UNCHANGED lastRequestedModel
  /\ UNCHANGED <<fnVars, runVars, helperVars, startVars, patchVars, config, modelCache, clock, lastExplicit>>

\* faulty variant: the pin is written again when the agent has closed
ChatCloseWritesPin(r, code, stdout, stderr) ==
  /\ req[r].pc = "agent"
  /\ req[r].proc \in {"running", "killed"}
  /\ code \in CloseCodes(req[r])
  /\ LET out == RunResult(code, stdout, stderr)
         rec == Settled(req[r], "closed", code)
     IN IF out.code # 0
        THEN Answer(r, rec, Json(500, "cursor_cli_error", out.code,
                                 Trim(out.stderr)))
        ELSE Answer(r, rec, Completion(req[r].stream, req[r].model,
                                       Trim(out.stdout)))
  /\ lastRequestedModel' = Pinned(req[r].requested, lastRequestedModel)
  /\ UNCHANGED <<fnVars, runVars, helperVars, startVars, patchVars, config, modelCache, clock, lastExplicit>>

\* child.on("close") of a chat completion's agent, and the rest of the handler
ChatClose(r, code, stdout, stderr) ==
  /\ req[r].pc = "agent"
  /\ req[r].proc \in {"running", "killed"}
  /\ code \in CloseCodes(req[r])
  /\ LET out == RunResult(code, stdout, stderr)
         rec == Settled(req[r], "closed", code)
     IN IF out.code # 0
        THEN Answer(r, rec, Json(500, "cursor_cli_error", out.code,
                                 Trim(out.stderr)))
        ELSE Answer(r, rec, Completion(req[r].stream, req[r].model,
                                       Trim(out.stdout)))
  /\ UNCHANGED <<fnVars, runVars, helperVars, startVars, patchVars, config, lastRequestedModel, modelCache, clock, lastExplicit>>

\* faulty variant: the cache is stamped with the time the listing ended
ListCloseStampsNow(r, code, stdout, stderr) ==
  /\ req[r].pc = "listing"
  /\ req[r].proc \in {"running", "killed"}
  /\ code \in CloseCodes(req[r])
  /\ LET list == RunResult(code, stdout, stderr)
         rec == Settled(req[r], "closed", code)
     IN IF list.code # 0
        THEN /\ Answer(r, rec, Json(500, "internal_error", NoExit,
                                    Trim(list.stderr)))
             /\ UNCHANGED modelCache
        ELSE /\ modelCache' = [present |-> TRUE, at |-> clock,
                               models |-> parseCursorCliModels(list.stdout)]
             /\ Answer(r, rec, ModelList(modelCache'.models))
  /\ UNCHANGED <<fnVars, runVars, helperVars, startVars, patchVars, config, lastRequestedModel, clock, lastExplicit>>

\* child.on("close") of `agent --list-models`, and the rest of the handler
ListClose(r, code, stdout, stderr) ==
  /\ req[r].pc = "listing"
  /\ req[r].proc \in {"running", "killed"}
  /\ code \in CloseCodes(req[r])
  /\ LET list == RunResult(code, stdout, stderr)
         rec == Settled(req[r], "closed", code)
     IN IF list.code # 0
        THEN /\ Answer(r, rec, Json(500, "internal_error", NoExit,
                                    Trim(list.stderr)))
             /\ UNCHANGED modelCache
        ELSE /\ modelCache' = [present |-> TRUE, at |-> req[r].now,
                               models |-> parseCursorCliModels(list.stdout)]
             /\ Answer(r, rec, ModelList(modelCache'.models))
  /\ UNCHANGED <<fnVars, runVars, helperVars, startVars, patchVars, config, lastRequestedModel, clock, lastExplicit>>

\* time passes: a millisecond, or a whole freshness window
Tick(d) ==
  /\ clock + d <= FreshWindow + MaxClock
  /\ (clock + d) % FreshWindow <= MaxClock
  /\ clock' = clock + d
  /\ UNCHANGED <<fnVars, runVars, helperVars, startVars, patchVars, config, lastRequestedModel, modelCache, req, lastExplicit>>

\* the client has read the response; the slot takes the next request
Release(r) ==
  /\ req[r].pc = "done"
  /\ req' = [s \in Slots |->
               IF s = r THEN IdleReq
               ELSE [req[s] EXCEPT !.doneBefore = @ \ {r}]]
  /\ UNCHANGED <<fnVars, runVars, helperVars, startVars, patchVars, config, lastRequestedModel, modelCache, clock, lastExplicit>>

\* ------------------------------------------------------------ cursor_cli_patch
Calls == 1..MaxCalls
NoDir == 0
StatusTimeoutMs == 30000
GitTimeoutMs == 60000
GitFailure == 128
StatusOutputs == {<<>>, <<" ", "M", " ", "f", "\n">>}
PatchOutputs == {<<"d", "i", "f", "f", "\n">>, <<"\n">>}

NoEnvelope ==
  [present |-> FALSE, noChanges |-> FALSE, summary |-> <<>>,
   stdout |-> <<>>, stderr |-> <<>>, hasPatch |-> FALSE, patch |-> <<>>]
IdleCall ==
  [pc |-> "idle", keepTemp |-> FALSE,
   tempDir |-> NoDir, proc |-> "none", timer |-> "none", spawns |-> 0,
   kills |-> 0, closeCode |-> NoExit,
   agent |-> [code |-> NoExit, stdout |-> <<>>, stderr |-> <<>>],
   patchText |-> <<>>, outcome |-> "none", error |-> "none",
   envelope |-> NoEnvelope, log |-> <<>>]

\* await run(cmd, ...) in directory cwd: the child is spawned, the call waits;
\* kills and closeCode are those of the child being waited for; dir is the
\* temporary directory the command runs in, when it runs in one
Run(rec, pc, cmd, cwd, timeoutMs) ==
  [Spawned(rec, timeoutMs) EXCEPT
     !.pc = pc, !.kills = 0, !.closeCode = NoExit,
     !.log = Append(@, [cmd |-> cmd, cwd |-> cwd,
                        dir |-> IF cwd = "temp" THEN rec.tempDir
                                ELSE NoDir])]

\* the call has returned or thrown: it waits for no child any more
Done(rec) ==
  [rec EXCEPT !.pc = "done", !.proc = "none", !.timer = "none", !.kills = 0,
              !.closeCode = NoExit]

\* faulty variant: a dirty tree is let through
PreconditionStatusOnly(status, allowDirty) ==
  IF status.code # 0 THEN "git status failed" ELSE "ok"

\* the checks between `git status` and mkdtemp
Precondition(status, allowDirty) ==
  IF status.code # 0 THEN "git status failed"
  ELSE IF ~allowDirty /\ Len(Trim(status.stdout)) > 0
  THEN "Working tree is not clean"
  ELSE "ok"

\* faulty variant: keepTemp is not consulted
FinallyAlways(p, rec, keepTemp, outcome, error, envelope) ==
  LET left == [rec EXCEPT !.keepTemp = keepTemp, !.outcome = outcome,
                          !.error = error, !.envelope = envelope]
  IN call' = [call EXCEPT ![p] =
                Run(left, "rm", "worktree remove", "repo", GitTimeoutMs)]

\* the code of the finally block after the call's body left with `outcome`
Finally(p, rec, keepTemp, outcome, error, envelope) ==
  LET left == [rec EXCEPT !.keepTemp = keepTemp, !.outcome = outcome,
                          !.error = error, !.envelope = envelope]
  IN IF ~keepTemp
     THEN call' = [call EXCEPT ![p] =
                     Run(left, "rm", "worktree remove", "repo", GitTimeoutMs)]
     ELSE call' = [call EXCEPT ![p] = Done(left)]

\* faulty variant: the patch section is written whatever the diff
EnvelopeAlwaysPatch(summary, agent, patchText) ==
  [present |-> TRUE, noChanges |-> FALSE, summary |-> summary,
   stdout |-> Trim(agent.stdout), stderr |-> Trim(agent.stderr),
   hasPatch |-> TRUE, patch |-> patchText]

Envelope(summary, agent, patchText) ==
  [present |-> TRUE, noChanges |-> patchText = <<>>, summary |-> summary,
   stdout |-> Trim(agent.stdout), stderr |-> Trim(agent.stderr),
   hasPatch |-> patchText # <<>>, patch |-> patchText]

\* execute(toolArgs) up to its first await; allowDirty, timeoutMs and keepTemp
\* are each read once, and are inputs of the step that reads them
PatchCall(p, hasRepo) ==
  /\ call[p].pc = "idle"
  /\ \A q \in Calls : q < p => call[q].pc # "idle"
  /\ LET rec == IdleCall
     IN IF ~hasRepo
        THEN call' = [call EXCEPT ![p] =
                        Done([rec EXCEPT !.outcome = "threw",
                                         !.error = "requires a git repository"])]
        ELSE call' = [call EXCEPT ![p] =
                        Run(rec, "status", "status", "repo", StatusTimeoutMs)]
  /\ UNCHANGED <<fnVars, runVars, helperVars, startVars, serverVars, fs, worktrees, dirty>>

\* the timer of the command a call is waiting for fires
PatchTimer(p) ==
  /\ call[p].timer = "armed"
  /\ call[p].proc = "running"
  /\ call' = [call EXCEPT ![p].timer = "fired", ![p].proc = "killed",
                          ![p].kills = @ + 1]
  /\ UNCHANGED <<fnVars, runVars, helperVars, startVars, serverVars, fs, worktrees, dirty>>

Waiting(p, pc) == call[p].pc = pc /\ call[p].proc \in {"running", "killed"}

\* faulty variant: one fixed directory instead of mkdtemp
StatusCloseFixedDir(p, code, stdout, allowDirty) ==
  /\ Waiting(p, "status")
  /\ code \in (IF call[p].proc = "killed" THEN {NullCode} ELSE {0, GitFailure})
  /\ code = GitFailure => stdout = <<>>
  /\ LET status == RunResult(code, stdout, <<>>)
         rec == Settled(call[p], "closed", code)
         check == Precondition(status, allowDirty)
     IN IF check # "ok"
        THEN /\ call' = [call EXCEPT ![p] =
                           Done([rec EXCEPT !.outcome = "threw",
                                            !.error = check])]
             /\ UNCHANGED fs
        ELSE /\ fs' = fs \cup {1}
             /\ call' = [call EXCEPT ![p] =
                           Run([rec EXCEPT !.tempDir = 1], "wtAdd",
                               "worktree add", "repo", GitTimeoutMs)]
  /\ UNCHANGED <<fnVars, runVars, helperVars, startVars, serverVars, worktrees, dirty>>

\* `git status --porcelain` closes; mkdtemp and `git worktree add` follow
StatusClose(p, code, stdout, allowDirty) ==
  /\ Waiting(p, "status")
  /\ code \in (IF call[p].proc = "killed" THEN {NullCode} ELSE {0, GitFailure})
  /\ code = GitFailure => stdout = <<>>
  /\ LET status == RunResult(code, stdout, <<>>)
         rec == Settled(call[p], "closed", code)
         check == Precondition(status, allowDirty)
     IN IF check # "ok"
        THEN /\ call' = [call EXCEPT ![p] =
                           Done([rec EXCEPT !.outcome = "threw",
                                            !.error = check])]
             /\ UNCHANGED fs
        ELSE /\ fs' = fs \cup {p}
             /\ call' = [call EXCEPT ![p] =
                           Run([rec EXCEPT !.tempDir = p], "wtAdd",
                               "worktree add", "repo", GitTimeoutMs)]
  /\ UNCHANGED <<fnVars, runVars, helperVars, startVars, serverVars, worktrees, dirty>>

\* `git worktree add --detach tempDir HEAD` closes: registered on exit 0,
\* registered or not when it was killed
WtAddClose(p, code, registered, keepTemp, timeoutMs) ==
  /\ Waiting(p, "wtAdd")
  /\ code \in (IF call[p].proc = "killed" THEN {NullCode} ELSE {0, GitFailure})
  /\ code = 0 => registered
  /\ code = GitFailure => ~registered
  /\ worktrees' = IF registered THEN worktrees \cup {call[p].tempDir}
                  ELSE worktrees
  /\ LET wtAdd == RunResult(code, <<>>, <<>>)
         rec == Settled(call[p], "closed", code)
     IN IF wtAdd.code # 0
        THEN Finally(p, rec, keepTemp, "threw", "git worktree add failed",
                     NoEnvelope)
        ELSE call' = [call EXCEPT ![p] =
                        Run(rec, "agent", "agent", "temp", timeoutMs)]
  /\ UNCHANGED <<fnVars, runVars, helperVars, startVars, serverVars, fs, dirty>>

\* the agent cannot be launched: run rejects
AgentError(p, keepTemp) ==
  /\ call[p].pc = "agent" /\ call[p].proc = "running"
  /\ Finally(p, Settled(call[p], "failed", NoExit), keepTemp, "threw",
             "Command not found", NoEnvelope)
  /\ UNCHANGED <<fnVars, runVars, helperVars, startVars, serverVars, fs, worktrees, dirty>>

\* the agent closes, having edited files of the worktree or not
AgentClose(p, code, edits, stdout, stderr, keepTemp) ==
  /\ Waiting(p, "agent")
  /\ code \in CloseCodes(call[p])
  /\ dirty' = IF edits THEN dirty \cup {call[p].tempDir} ELSE dirty
  /\ LET cursorRes == RunResult(code, stdout, stderr)
         rec == [Settled(call[p], "closed", code) EXCEPT
                   !.agent = [code |-> code, stdout |-> stdout,
                              stderr |-> stderr]]
     IN IF cursorRes.code # 0
        THEN Finally(p, rec, keepTemp, "threw",
                     "Cursor CLI failed inside worktree", NoEnvelope)
        ELSE call' = [call EXCEPT ![p] =
                        Run(rec, "addN", "add -N", "temp", GitTimeoutMs)]
  /\ UNCHANGED <<fnVars, runVars, helperVars, startVars, serverVars, fs, worktrees>>

\* `git add -N .` closes; it cannot succeed outside a worktree
AddNClose(p, code, keepTemp) ==
  /\ Waiting(p, "addN")
  /\ code \in (IF call[p].proc = "killed" THEN {NullCode} ELSE {0, GitFailure})
  /\ code = 0 => call[p].tempDir \in worktrees
  /\ LET addIntent == RunResult(code, <<>>, <<>>)
         rec == Settled(call[p], "closed", code)
     IN IF addIntent.code # 0
        THEN Finally(p, rec, keepTemp, "threw", "git add -N failed",
                     NoEnvelope)
        ELSE call' = [call EXCEPT ![p] =
                        Run(rec, "diff", "diff --patch", "temp", GitTimeoutMs)]
  /\ UNCHANGED <<fnVars, runVars, helperVars, startVars, serverVars, fs, worktrees, dirty>>

\* `git diff --patch --binary` closes: a patch iff the worktree has changes
DiffClose(p, code, stdout, keepTemp) ==
  /\ Waiting(p, "diff")
  /\ code \in (IF call[p].proc = "killed" THEN {NullCode} ELSE {0, GitFailure})
  /\ code = 0 => /\ call[p].tempDir \in worktrees
                 /\ (stdout # <<>>) = (call[p].tempDir \in dirty)
  /\ code = GitFailure => stdout = <<>>
  /\ LET diff == RunResult(code, stdout, <<>>)
         rec == Settled(call[p], "closed", code)
     IN IF diff.code # 0
        THEN Finally(p, rec, keepTemp, "threw", "git diff failed", NoEnvelope)
        ELSE call' = [call EXCEPT ![p] =
                        Run([rec EXCEPT !.patchText = TrimEnd(diff.stdout)],
                            "nameStatus", "diff --name-status", "temp",
                            GitTimeoutMs)]
  /\ UNCHANGED <<fnVars, runVars, helperVars, startVars, serverVars, fs, worktrees, dirty>>

\* `git diff --name-status` closes and the envelope is returned
NameStatusClose(p, code, stdout, keepTemp) ==
  /\ Waiting(p, "nameStatus")
  /\ code \in (IF call[p].proc = "killed" THEN {NullCode} ELSE {0, GitFailure})
  /\ LET nameStatus == RunResult(code, stdout, <<>>)
         rec == Settled(call[p], "closed", code)
         summary == IF nameStatus.code = 0 THEN Trim(nameStatus.stdout)
                    ELSE <<>>
     IN Finally(p, rec, keepTemp, "returned", "none",
                Envelope(summary, rec.agent, rec.patchText))
  /\ UNCHANGED <<fnVars, runVars, helperVars, startVars, serverVars, fs, worktrees, dirty>>

\* what `git worktree remove [--force] dir` does when it runs to its end:
\* a registered worktree is removed, without --force only a clean one
Removable(dir, force) == dir \in worktrees /\ (force \/ dir \notin dirty)

\* rm(tempDir, { recursive: true, force: true }) and the end of the call
Finished(p, rec) ==
  /\ fs' = fs \ {rec.tempDir}
  /\ call' = [call EXCEPT ![p] = Done(rec)]

\* faulty variant: the forced removal follows a plain removal that exited 0
RmCloseForceOnZero(p, code, removed) ==
  /\ Waiting(p, "rm")
  /\ code \in (IF call[p].proc = "killed" THEN {NullCode} ELSE {0, GitFailure})
  /\ removed => Removable(call[p].tempDir, FALSE)
  /\ (code = 0) => removed
  /\ (code = GitFailure) => ~Removable(call[p].tempDir, FALSE)
  /\ worktrees' = IF removed THEN worktrees \ {call[p].tempDir} ELSE worktrees
  /\ dirty' = IF removed THEN dirty \ {call[p].tempDir} ELSE dirty
  /\ LET rmRes == RunResult(code, <<>>, <<>>)
         rec == Settled(call[p], "closed", code)
     IN IF rmRes.code = 0
        THEN /\ call' = [call EXCEPT ![p] =
                           Run(rec, "rmForce", "worktree remove --force",
                               "repo", GitTimeoutMs)]
             /\ UNCHANGED fs
        ELSE Finished(p, rec)
  /\ UNCHANGED <<fnVars, runVars, helperVars, startVars, serverVars>>

\* `git worktree remove tempDir` closes; a killed one has removed it or not
RmClose(p, code, removed) ==
  /\ Waiting(p, "rm")
  /\ code \in (IF call[p].proc = "killed" THEN {NullCode} ELSE {0, GitFailure})
  /\ removed => Removable(call[p].tempDir, FALSE)
  /\ (code = 0) => removed
  /\ (code = GitFailure) => ~Removable(call[p].tempDir, FALSE)
  /\ worktrees' = IF removed THEN worktrees \ {call[p].tempDir} ELSE worktrees
  /\ dirty' = IF removed THEN dirty \ {call[p].tempDir} ELSE dirty
  /\ LET rmRes == RunResult(code, <<>>, <<>>)
         rec == Settled(call[p], "closed", code)
     IN IF rmRes.code # 0
        THEN /\ call' = [call EXCEPT ![p] =
                           Run(rec, "rmForce", "worktree remove --force",
                               "repo", GitTimeoutMs)]
             /\ UNCHANGED fs
        ELSE Finished(p, rec)
  /\ UNCHANGED <<fnVars, runVars, helperVars, startVars, serverVars>>

\* `git worktree remove --force tempDir` closes; its result is not read
RmForceClose(p, code, removed) ==
  /\ Waiting(p, "rmForce")
  /\ code \in (IF call[p].proc = "killed" THEN {NullCode} ELSE {0, GitFailure})
  /\ removed => Removable(call[p].tempDir, TRUE)
  /\ (code = 0) => removed
  /\ (code = GitFailure) => ~Removable(call[p].tempDir, TRUE)
  /\ worktrees' = IF removed THEN worktrees \ {call[p].tempDir} ELSE worktrees
  /\ dirty' = IF removed THEN dirty \ {call[p].tempDir} ELSE dirty
  /\ Finished(p, Settled(call[p], "closed", code))
  /\ UNCHANGED <<fnVars, runVars, helperVars, startVars, serverVars>>

\* ------------------------------------------------------------ cursor_bridge_start
Starters == 1..MaxStarts
Pids == 1..MaxBridges
NoPid == 0
IdleStart == [pc |-> "idle", pid |-> NoPid, result |-> "none"]

\* GET /health is answered 200 by a bridge that listens on the port
Reachable == \E b \in Pids : bridges[b] = "up"

\* what `await isBridgeUp(300)` may resolve to: true only from a reachable
\* bridge, false also when the answer takes longer than the timeout
isBridgeUp == IF Reachable THEN BOOLEAN ELSE {FALSE}

Returned(rec, result) == [rec EXCEPT !.pc = "done", !.result = result]

\* execute() up to its first await
StartCall(c) ==
  /\ starter[c].pc = "idle"
  /\ starter' = [starter EXCEPT ![c].pc = "check"]
  /\ UNCHANGED <<fnVars, runVars, helperVars, serverVars, patchVars, bridges, pidFile>>

\* the first health check resolves; on false, startBridgeDetached up to its
\* first await: the child is spawned, or spawn gave no pid
CheckUp(c, ok, pid) ==
  /\ starter[c].pc = "check"
  /\ ok \in isBridgeUp
  /\ IF ok
     THEN /\ starter' = [starter EXCEPT ![c] = Returned(@, "alreadyRunning")]
          /\ UNCHANGED bridges
     ELSE IF pid = NoPid
     THEN /\ starter' = [starter EXCEPT ![c] = Returned(@, "threw")]
          /\ UNCHANGED bridges
     ELSE /\ bridges[pid] = "none"
          /\ \A b \in Pids : b < pid => bridges[b] # "none"
          /\ bridges' = [bridges EXCEPT ![pid] = "starting"]
          /\ starter' = [starter EXCEPT ![c].pc = "pidFile", ![c].pid = pid]
  /\ UNCHANGED <<fnVars, runVars, helperVars, serverVars, patchVars, pidFile>>

\* mkdir and writeFile(pidPath, String(child.pid)) are done
WritePid(c) ==
  /\ starter[c].pc = "pidFile"
  /\ pidFile' = starter[c].pid
  /\ starter' = [starter EXCEPT ![c].pc = "poll"]
  /\ UNCHANGED <<fnVars, runVars, helperVars, serverVars, patchVars, bridges>>

\* a health check of the waiting loop resolves true
PollUp(c) ==
  /\ starter[c].pc = "poll"
  /\ TRUE \in isBridgeUp
  /\ starter' = [starter EXCEPT ![c] = Returned(@, "started")]
  /\ UNCHANGED <<fnVars, runVars, helperVars, serverVars, patchVars, bridges, pidFile>>

\* five seconds have passed without a health check resolving true
PollTimeout(c) ==
  /\ starter[c].pc = "poll"
  /\ starter' = [starter EXCEPT ![c] = Returned(@, "notUp")]
  /\ UNCHANGED <<fnVars, runVars, helperVars, serverVars, patchVars, bridges, pidFile>>

\* the tool call is over; the caller may call again
StartReturn(c) ==
  /\ starter[c].pc = "done"
  /\ starter' = [starter EXCEPT ![c] = IdleStart]
  /\ UNCHANGED <<fnVars, runVars, helperVars, serverVars, patchVars, bridges, pidFile>>

\* server.listen succeeds for a bridge when the port is free
BridgeListen(b) ==
  /\ bridges[b] = "starting"
  /\ ~Reachable
  /\ bridges' = [bridges EXCEPT ![b] = "up"]
  /\ UNCHANGED <<fnVars, runVars, helperVars, serverVars, patchVars, starter, pidFile>>

\* a bridge process ends: the port was taken, or it was stopped
BridgeExit(b) ==
  /\ bridges[b] \in {"starting", "up"}
  /\ bridges' = [bridges EXCEPT ![b] = "exited"]
  /\ UNCHANGED <<fnVars, runVars, helperVars, serverVars, patchVars, starter, pidFile>>

\* ------------------------------------------------------------ run, event by event
Invocations == 1..MaxRuns

\* opts.timeoutMs: undefined, or a number
NoTimeout == [given |-> FALSE, ms |-> 0]
Timeout(ms) == [given |-> TRUE, ms |-> ms]
Timeouts == {NoTimeout} \cup {Timeout(ms) : ms \in {-1, 0, 1, DefaultTimeoutMs}}

IdleRun ==
  [pc |-> "idle", timeoutMs |-> NoTimeout, proc |-> "none", timer |-> "none",
   spawns |-> 0, kills |-> 0, errors |-> 0, closes |-> 0,
   promise |-> "pending", settles |-> 0, code |-> NoExit]

\* typeof timeoutMs === "number" && timeoutMs > 0
HasTimer(timeoutMs) == timeoutMs.given /\ TimerArmed(timeoutMs.ms)

\* clearTimeout(timeout): an armed timer will not fire any more
Cleared(timer) == IF timer = "armed" THEN "cleared" ELSE timer

\* faulty variant: a second resolve or reject settles the promise again
SettleAgain(rec, promise, code) ==
  [rec EXCEPT !.promise = promise, !.code = code, !.settles = @ + 1]

\* resolve or reject: the first call settles the promise, a later one is void
Settle(rec, promise, code) ==
  IF rec.promise = "pending"
  THEN [rec EXCEPT !.promise = promise, !.code = code, !.settles = @ + 1]
  ELSE rec

\* run(cmd, args, opts) up to its return: the child is spawned, the timer set
RunCall(i, timeoutMs) ==
  /\ runs[i].pc = "idle"
  /\ \A j \in Invocations : j < i => runs[j].pc # "idle"
  /\ runs' = [runs EXCEPT ![i] =
                [IdleRun EXCEPT
                   !.pc = "called", !.timeoutMs = timeoutMs,
                   !.proc = "running", !.spawns = 1,
                   !.timer = IF HasTimer(timeoutMs) THEN "armed" ELSE "none"]]
  /\ UNCHANGED <<fnVars, helperVars, startVars, serverVars, patchVars>>

\* the timer's callback: child.kill("SIGKILL")
RunTimer(i) ==
  /\ runs[i].timer = "armed"
  /\ runs' = [runs EXCEPT
                ![i].timer = "fired",
                ![i].proc = IF @ = "running" THEN "killed" ELSE @,
                ![i].kills = IF runs[i].proc = "running" THEN @ + 1 ELSE @]
  /\ UNCHANGED <<fnVars, helperVars, startVars, serverVars, patchVars>>

\* child.on("error"): the launch has failed
RunError(i) ==
  /\ runs[i].proc = "running"
  /\ runs[i].errors = 0
  /\ runs' = [runs EXCEPT ![i] =
                Settle([@ EXCEPT !.proc = "failed", !.errors = 1,
                                 !.timer = Cleared(@)],
                       "rejected", NoExit)]
  /\ UNCHANGED <<fnVars, helperVars, startVars, serverVars, patchVars>>

\* child.on("close"): the child has ended by itself or by the signal, or the
\* close that follows a failed launch
RunClose(i, code) ==
  /\ runs[i].proc \in {"running", "killed", "failed"}
  /\ runs[i].closes = 0
  /\ code \in (IF runs[i].proc = "running" THEN ExitCodes ELSE {NullCode})
  /\ runs' = [runs EXCEPT ![i] =
                Settle([@ EXCEPT !.proc = IF @ = "failed" THEN @ ELSE "closed",
                                 !.closes = 1, !.timer = Cleared(@)],
                       "resolved", CloseCode(code))]
  /\ UNCHANGED <<fnVars, helperVars, startVars, serverVars, patchVars>>

\* ------------------------------------------------------------ bridge helpers
Ensurers == 1..MaxEnsures
Stoppers == 1..MaxStops
IdleEnsure ==
  [pc |-> "idle", pid |-> NoPid, spawns |-> 0, elapsed |-> 0,
   result |-> "none"]

\* time of the waiting loop, in tenths of a second: the loop goes on while
\* less than 3_000 ms have passed, and one round takes the 200 ms pause and
\* a health check of up to 300 ms
EnsureWindow == 30
EnsureRounds == {2, 5}

\* faulty variant: an error of the start leaves the function
Uncaught(rec) == [rec EXCEPT !.pc = "done", !.result = "threw"]

\* catch { }: an error of the start is dropped and the function returns
Caught(rec) == [rec EXCEPT !.pc = "done", !.result = "returned"]

\* ensureBridgeProcess up to its first await
EnsureCall(c, autostart) ==
  /\ ensurer[c].pc = "idle"
  /\ ensurer' = [ensurer EXCEPT ![c] =
                   IF autostart THEN [IdleEnsure EXCEPT !.pc = "check"]
                   ELSE [IdleEnsure EXCEPT !.pc = "done",
                                           !.result = "returned"]]
  /\ UNCHANGED <<fnVars, runVars, serverVars, patchVars, startVars, stopper>>

\* the health check resolves; on false, startBridgeDetached up to its first
\* await: the child is spawned, or spawn gave no pid and the start throws
EnsureCheck(c, ok, pid) ==
  /\ ensurer[c].pc = "check"
  /\ ok \in isBridgeUp
  /\ IF ok
     THEN /\ ensurer' = [ensurer EXCEPT ![c].pc = "done",
                                        ![c].result = "returned"]
          /\ UNCHANGED bridges
     ELSE IF pid = NoPid
     THEN /\ ensurer' = [ensurer EXCEPT ![c] = Caught(@)]
          /\ UNCHANGED bridges
     ELSE /\ bridges[pid] = "none"
          /\ \A b \in Pids : b < pid => bridges[b] # "none"
          /\ bridges' = [bridges EXCEPT ![pid] = "starting"]
          /\ ensurer' = [ensurer EXCEPT ![c].pc = "pidFile", ![c].pid = pid,
                                        ![c].spawns = @ + 1]
  /\ UNCHANGED <<fnVars, runVars, serverVars, patchVars, starter, pidFile,
                 stopper>>

\* mkdir and writeFile are done, or one of them has failed
EnsureWritePid(c, written) ==
  /\ ensurer[c].pc = "pidFile"
  /\ IF written
     THEN /\ pidFile' = ensurer[c].pid
          /\ ensurer' = [ensurer EXCEPT ![c].pc = "poll"]
     ELSE /\ ensurer' = [ensurer EXCEPT ![c] = Caught(@)]
          /\ UNCHANGED pidFile
  /\ UNCHANGED <<fnVars, runVars, serverVars, patchVars, starter, bridges,
                 stopper>>

\* one round of the waiting loop: the loop test, a health check and, when it
\* resolved false, the pause
EnsurePoll(c, ok, round) ==
  /\ ensurer[c].pc = "poll"
  /\ ok \in isBridgeUp
  /\ ensurer' = [ensurer EXCEPT ![c] =
                   IF @.elapsed >= EnsureWindow \/ ok
                   THEN [@ EXCEPT !.pc = "done", !.result = "returned"]
                   ELSE [@ EXCEPT !.elapsed = @ + round]]
  /\ UNCHANGED <<fnVars, runVars, serverVars, patchVars, startVars, stopper>>

\* the call is over; the caller may call again
EnsureReturn(c) ==
  /\ ensurer[c].pc = "done"
  /\ ensurer' = [ensurer EXCEPT ![c] = IdleEnsure]
  /\ UNCHANGED <<fnVars, runVars, serverVars, patchVars, startVars, stopper>>
IdleStop ==
  [pc |-> "idle", pid |-> NoPid, signals |-> 0, result |-> "none",
   ok |-> "none"]

\* the pid file exists and is empty: writeFile has opened it and has not
\* written the pid yet; Number("") is 0
EmptyFile == -1

\* Number.isFinite(pid) && pid > 0
ValidPid(pid) == pid > 0

\* faulty variant: an error of readFile or unlink leaves the function
StopUncaught(rec) == [rec EXCEPT !.pc = "health", !.result = "threw"]

\* catch { return false; }
StopCaught(rec) == [rec EXCEPT !.pc = "health", !.result = "false"]

\* cursor_bridge_stop's execute() and stopBridgeByPidFile up to the first
\* await
StopCall(c) ==
  /\ stopper[c].pc = "idle"
  /\ \A j \in Stoppers : j < c => stopper[j].pc # "idle"
  /\ stopper' = [stopper EXCEPT ![c].pc = "read"]
  /\ UNCHANGED <<fnVars, runVars, serverVars, patchVars, startVars, ensurer>>

\* readFile settles: it fails when there is no file or it cannot be read;
\* an invalid pid goes on to unlink; a valid one is sent SIGTERM, whose
\* default action ends a live bridge, and signalling a process that is gone
\* throws and is ignored
StopRead(c, readable) ==
  /\ stopper[c].pc = "read"
  /\ IF pidFile = NoPid \/ ~readable
     THEN /\ stopper' = [stopper EXCEPT ![c] = StopCaught(@)]
          /\ UNCHANGED bridges
     ELSE IF ~ValidPid(pidFile)
     THEN /\ stopper' = [stopper EXCEPT ![c].pc = "unlinkBad",
                                        ![c].pid = pidFile]
          /\ UNCHANGED bridges
     ELSE /\ stopper' = [stopper EXCEPT ![c].pc = "unlink",
                                        ![c].pid = pidFile,
                                        ![c].signals = @ + 1]
          /\ bridges' = [bridges EXCEPT ![pidFile] =
                           IF @ \in {"starting", "up"} THEN "exited" ELSE @]
  /\ UNCHANGED <<fnVars, runVars, serverVars, patchVars, starter, pidFile,
                 ensurer>>

\* unlink settles: the file is removed and the function returns false for
\* an invalid pid, true for a valid one; unlink fails when the file is gone
StopUnlink(c) ==
  /\ stopper[c].pc \in {"unlinkBad", "unlink"}
  /\ IF pidFile # NoPid
     THEN /\ pidFile' = NoPid
          /\ stopper' = [stopper EXCEPT
                           ![c].pc = "health",
                           ![c].result = IF stopper[c].pc = "unlink"
                                         THEN "true" ELSE "false"]
     ELSE /\ stopper' = [stopper EXCEPT ![c] = StopCaught(@)]
          /\ UNCHANGED pidFile
  /\ UNCHANGED <<fnVars, runVars, serverVars, patchVars, starter, bridges,
                 ensurer>>

\* ok: !(await isBridgeUp(300)), and the tool returns
StopHealth(c, up) ==
  /\ stopper[c].pc = "health"
  /\ up \in isBridgeUp
  /\ stopper' = [stopper EXCEPT ![c].pc = "done",
                                ![c].ok = IF up THEN "false" ELSE "true"]
  /\ UNCHANGED <<fnVars, runVars, serverVars, patchVars, startVars, ensurer>>

\* writeFile of startBridgeDetached has opened the pid file, which
\* truncates it, and has not written yet
PidFileOpen(c) ==
  /\ starter[c].pc = "pidFile"
  /\ pidFile # EmptyFile
  /\ pidFile' = EmptyFile
  /\ UNCHANGED <<fnVars, runVars, helperVars, serverVars, patchVars, starter,
                 bridges>>

\* ------------------------------------------------------------ openai.ts: prompt
Roles ==
  {"system", "developer", "user", "assistant", "tool", "function", "other"}

\* an element of an array content: a falsy value, a string, {type: "text",
\* text: <string>}, or any other object
Part(kind, text) == [kind |-> kind, text |-> text]
Parts ==
  {Part("null", <<>>), Part("string", <<"b">>), Part("text", <<>>),
   Part("text", <<"b">>), Part("image", <<>>)}

\* a message content: a string, an array of parts, or any other value
Content(kind, text, parts) == [kind |-> kind, text |-> text, parts |-> parts]
Contents ==
  {Content("string", t, <<>>) : t \in {<<>>, <<"a">>}}
    \cup {Content("other", <<>>, <<>>)}
    \cup {Content("array", <<>>, ps) : ps \in SeqsUpTo(Parts, MaxParts)}

Messages == [role : Roles, content : Contents]
MessageSeqs == SeqsUpTo(Messages, MaxMessages)

RECURSIVE Join(_, _)
Join(texts, sep) ==
  IF texts = <<>> THEN <<>>
  ELSE IF Len(texts) = 1 THEN texts[1]
  ELSE texts[1] \o sep \o Join(Tail(texts), sep)

PartText(p) == IF p.kind \in {"string", "text"} THEN p.text ELSE <<>>

\* faulty variant: a content that is neither string nor array is printed
messageContentToString(content) ==
  IF content.kind = "string" THEN content.text
  ELSE IF content.kind = "array"
  THEN Join([i \in 1..Len(content.parts) |-> PartText(content.parts[i])], <<>>)
  ELSE <<"a">>

messageContentToText(content) ==
  IF content.kind = "string" THEN content.text
  ELSE IF content.kind = "array"
  THEN Join([i \in 1..Len(content.parts) |-> PartText(content.parts[i])], <<>>)
  ELSE <<>>

\* the for loop: systemParts and convo after the messages from position i on
RECURSIVE Collect(_, _, _)
Collect(messages, i, acc) ==
  IF i > Len(messages) THEN acc
  ELSE LET role == messages[i].role
           text == messageContentToText(messages[i].content)
       IN Collect(messages, i + 1,
            IF text = <<>> THEN acc
            ELSE IF role \in {"system", "developer"}
            THEN [acc EXCEPT !.systemParts = Append(@, text)]
            ELSE IF role = "user"
            THEN [acc EXCEPT !.convo = Append(@, <<"User: ">> \o text)]
            ELSE IF role = "assistant"
            THEN [acc EXCEPT !.convo = Append(@, <<"Assistant: ">> \o text)]
            ELSE IF role \in {"tool", "function"}
            THEN [acc EXCEPT !.convo = Append(@, <<"Tool: ">> \o text)]
            ELSE acc)

Blank == <<"\n", "\n">>
Suffix == Blank \o <<"Assistant:">>

\* faulty variant: the System block is left behind the transcript
buildPromptSystemLast(messages) ==
  LET acc == Collect(messages, 1, [systemParts |-> <<>>, convo |-> <<>>])
      system == IF Len(acc.systemParts) # 0
                THEN <<"System:", "\n">> \o Join(acc.systemParts, Blank)
                       \o Blank
                ELSE <<>>
      transcript == Join(acc.convo, Blank)
  IN transcript \o system \o Suffix

buildPromptFromMessages(messages) ==
  LET acc == Collect(messages, 1, [systemParts |-> <<>>, convo |-> <<>>])
      system == IF Len(acc.systemParts) # 0
                THEN <<"System:", "\n">> \o Join(acc.systemParts, Blank)
                       \o Blank
                ELSE <<>>
      transcript == Join(acc.convo, Blank)
  IN system \o transcript \o Suffix

\* the prompt of a message sequence is built
BuildPrompt ==
  /\ builtPrompt = Undef
  /\ builtPrompt' = buildPromptFromMessages(chatMessages)
  /\ UNCHANGED <<serverVars, patchVars, startVars, runVars, helperVars,
               chatMessages, listing, parsed>>

\* ------------------------------------------------------------ cursorCli.ts: inputs
\* the lines a listing is made of: "<id> - <name>" with names that carry
\* none, one or two parenthesised remarks, or nothing but a remark; a padded
\* line; lines that are no model lines
LineTexts ==
  {ListLine(id, name) :
     id \in {<<"m">>, <<"n">>},
     name \in {<<"A">>, <<"B">>, <<"A", " ", "(", "c", ")">>, <<"(", "c", ")">>,
               <<"A", " ", "(", "c", ")", " ", "(", "d", ")">>}}
    \cup {<<" ", "m", " ", " ", "-", " ", "A", " ">>, <<>>,
          <<"j", "u", "n", "k">>, <<"m", "-", "A">>, <<"-", " ", "A">>}

ListingTexts ==
  {Join(ls, <<"\n">>) : ls \in SeqsUpTo(LineTexts, MaxLines)}

NotParsed == [done |-> FALSE, models |-> <<>>]

\* a model listing is parsed
ParseListing ==
  /\ ~parsed.done
  /\ parsed' = [done |-> TRUE, models |-> parseCursorCliModels(listing)]
  /\ UNCHANGED <<serverVars, patchVars, startVars, runVars, helperVars,
               chatMessages, builtPrompt, listing>>

\* ------------------------------------------------------------ specifications
InitBridge(cfgs) ==
  /\ config \in cfgs
  /\ lastRequestedModel = Undef
  /\ lastExplicit = Undef
  /\ modelCache = NoCache
  /\ clock = 0
  /\ req = [s \in Slots |-> IdleReq]
  /\ call = [p \in Calls |-> IdleCall]
  /\ fs = {}
  /\ worktrees = {}
  /\ dirty = {}
  /\ starter = [c \in Starters |-> IdleStart]
  /\ bridges = [b \in Pids |-> "none"]
  /\ pidFile = NoPid
  /\ runs = [i \in Invocations |-> IdleRun]
  /\ ensurer = [c \in Ensurers |-> IdleEnsure]
  /\ stopper = [c \in Stoppers |-> IdleStop]

\* no pure function is being followed
InitServer(cfgs) ==
  /\ InitBridge(cfgs)
  /\ chatMessages = <<>>
  /\ builtPrompt = Undef
  /\ listing = <<>>
  /\ parsed = NotParsed

DefaultConfig ==
  [requiredKey |-> Undef, defaultModel |-> Auto, mode |-> "ask",
   force |-> FALSE, approveMcps |-> FALSE, strictModel |-> TRUE,
   timeoutMs |-> DefaultTimeoutMs]

\* chat completions only, under every pinning policy, default and timeout
InitChat ==
  InitServer({c \in Configs : /\ c.requiredKey = Undef /\ c.mode = "ask"
                              /\ ~c.force /\ ~c.approveMcps})

NextChat ==
  \/ \E r \in Slots : ChatRequest(r)
  \/ \E r \in Slots, body \in Bodies : ChatBody(r, body)
  \/ \E r \in Slots : TimerFire(r)
  \/ \E r \in Slots, enoent \in BOOLEAN : ChildError(r, enoent)
  \/ \E r \in Slots, code \in ExitCodes \cup {NullCode},
        stdout \in Texts, stderr \in Texts : ChatClose(r, code, stdout, stderr)
  \/ \E r \in Slots : Release(r)

SpecChat == InitChat /\ [][NextChat]_vars

\* model listing only, with the clock
InitModels == InitServer({DefaultConfig})

NextModels ==
  \/ \E r \in Slots : ModelsRequest(r)
  \/ \E r \in Slots : TimerFire(r)
  \/ \E r \in Slots, enoent \in BOOLEAN : ChildError(r, enoent)
  \/ \E r \in Slots, code \in ExitCodes \cup {NullCode},
        stdout \in Listings, stderr \in Texts : ListClose(r, code, stdout, stderr)
  \/ \E d \in {1, FreshWindow} : Tick(d)
  \/ \E r \in Slots : Release(r)

SpecModels == InitModels /\ [][NextModels]_vars

\* every route, with and without a required key
InitAuth ==
  InitServer({c \in Configs : /\ c.defaultModel = Auto /\ c.mode = "ask"
                              /\ ~c.force /\ ~c.approveMcps /\ c.strictModel
                              /\ c.timeoutMs = DefaultTimeoutMs})

NextAuth ==
  \/ \E r \in Slots : Request(r)
  \/ \E r \in Slots,
        body \in {b \in Bodies : b.model \in {Undef, Auto, <<"g">>}} :
        ChatBody(r, body)
  \/ \E r \in Slots : TimerFire(r)
  \/ \E r \in Slots : ChildError(r, TRUE)
  \/ \E r \in Slots, code \in ExitCodes \cup {NullCode} :
        ChatClose(r, code, <<"x">>, <<"x">>)
  \/ \E r \in Slots, code \in ExitCodes \cup {NullCode} :
        ListClose(r, code, ListLine(<<"m", "1">>, <<"O", "n", "e">>), <<"x">>)
  \/ \E r \in Slots : Release(r)

SpecAuth == InitAuth /\ [][NextAuth]_vars

\* cursor_cli_patch calls against one repository
InitPatch == InitServer({DefaultConfig})

NextPatch ==
  \/ \E p \in Calls, hasRepo \in BOOLEAN : PatchCall(p, hasRepo)
  \/ \E p \in Calls : PatchTimer(p)
  \/ \E p \in Calls, code \in {0, GitFailure, NullCode},
        stdout \in StatusOutputs, allowDirty \in BOOLEAN :
        StatusClose(p, code, stdout, allowDirty)
  \/ \E p \in Calls, code \in {0, GitFailure, NullCode},
        registered \in BOOLEAN, keepTemp \in BOOLEAN,
        timeoutMs \in {0, GitTimeoutMs} :
        WtAddClose(p, code, registered, keepTemp, timeoutMs)
  \/ \E p \in Calls, keepTemp \in BOOLEAN : AgentError(p, keepTemp)
  \/ \E p \in Calls, code \in ExitCodes \cup {NullCode}, edits \in BOOLEAN,
        stdout \in {<<" ", "x", " ">>}, keepTemp \in BOOLEAN :
        AgentClose(p, code, edits, stdout, <<>>, keepTemp)
  \/ \E p \in Calls, code \in {0, GitFailure, NullCode},
        keepTemp \in BOOLEAN : AddNClose(p, code, keepTemp)
  \/ \E p \in Calls, code \in {0, GitFailure, NullCode},
        stdout \in PatchOutputs \cup {<<>>}, keepTemp \in BOOLEAN :
        DiffClose(p, code, stdout, keepTemp)
  \/ \E p \in Calls, code \in {0, GitFailure, NullCode},
        stdout \in StatusOutputs, keepTemp \in BOOLEAN :
        NameStatusClose(p, code, stdout, keepTemp)
  \/ \E p \in Calls, code \in {0, GitFailure, NullCode},
        removed \in BOOLEAN : RmClose(p, code, removed)
  \/ \E p \in Calls, code \in {0, GitFailure, NullCode},
        removed \in BOOLEAN : RmForceClose(p, code, removed)

SpecPatch == InitPatch /\ [][NextPatch]_vars

\* buildPromptFromMessages on every sequence of messages
InitPrompt ==
  /\ InitBridge({DefaultConfig})
  /\ chatMessages \in MessageSeqs
  /\ builtPrompt = Undef
  /\ listing = <<>>
  /\ parsed = NotParsed

NextPrompt == BuildPrompt

SpecPrompt == InitPrompt /\ [][NextPrompt]_vars

\* parseCursorCliModels on every listing of up to MaxLines lines
InitParse ==
  /\ InitBridge({DefaultConfig})
  /\ chatMessages = <<>>
  /\ builtPrompt = Undef
  /\ listing \in ListingTexts
  /\ parsed = NotParsed

NextParse == ParseListing

SpecParse == InitParse /\ [][NextParse]_vars

\* chat completions under every mode, --force and --approve-mcps setting
InitArgs ==
  InitServer({c \in Configs : /\ c.requiredKey = Undef /\ c.strictModel
                              /\ c.timeoutMs = DefaultTimeoutMs})

SpecArgs == InitArgs /\ [][NextChat]_vars

\* cursor_bridge_start calls, and the bridge processes they spawn
InitStart == InitServer({DefaultConfig})

NextStart ==
  \/ \E c \in Starters : StartCall(c)
  \/ \E c \in Starters, ok \in BOOLEAN, pid \in Pids \cup {NoPid} :
        CheckUp(c, ok, pid)
  \/ \E c \in Starters : WritePid(c)
  \/ \E c \in Starters : PollUp(c)
  \/ \E c \in Starters : PollTimeout(c)
  \/ \E c \in Starters : StartReturn(c)
  \/ \E b \in Pids : BridgeListen(b)
  \/ \E b \in Pids : BridgeExit(b)

SpecStart == InitStart /\ [][NextStart]_vars

\* run invocations under every timeout option
InitRun == InitServer({DefaultConfig})

NextRun ==
  \/ \E i \in Invocations, timeoutMs \in Timeouts : RunCall(i, timeoutMs)
  \/ \E i \in Invocations : RunTimer(i)
  \/ \E i \in Invocations : RunError(i)
  \/ \E i \in Invocations, code \in ExitCodes \cup {NullCode} : RunClose(i, code)

SpecRun == InitRun /\ [][NextRun]_vars

\* a timer that is set fires unless it is cleared, and a killed child closes
KilledClose(i) == runs[i].proc = "killed" /\ RunClose(i, NullCode)

SpecRunLive ==
  /\ SpecRun
  /\ \A i \in Invocations : WF_vars(RunTimer(i)) /\ WF_vars(KilledClose(i))

\* cursor_bridge_stop calls beside cursor_bridge_start calls
InitStop == InitServer({DefaultConfig})

\* the cursor_bridge_start calls that run beside the stop calls
StopStarters == {c \in Starters : c <= MaxStopStarts}

NextStop ==
  \/ \E c \in StopStarters : StartCall(c)
  \/ \E c \in StopStarters, ok \in BOOLEAN, pid \in Pids \cup {NoPid} :
        CheckUp(c, ok, pid)
  \/ \E c \in StopStarters : PidFileOpen(c)
  \/ \E c \in StopStarters : WritePid(c)
  \/ \E c \in StopStarters : PollUp(c)
  \/ \E c \in StopStarters : PollTimeout(c)
  \/ \E c \in StopStarters : StartReturn(c)
  \/ \E b \in Pids : BridgeListen(b)
  \/ \E b \in Pids : BridgeExit(b)
  \/ \E c \in Stoppers : StopCall(c)
  \/ \E c \in Stoppers, readable \in BOOLEAN : StopRead(c, readable)
  \/ \E c \in Stoppers : StopUnlink(c)
  \/ \E c \in Stoppers, up \in BOOLEAN : StopHealth(c, up)

SpecStop == InitStop /\ [][NextStop]_vars

\* ensureBridgeProcess calls, and the bridge processes they spawn
InitEnsure == InitServer({DefaultConfig})

NextEnsure ==
  \/ \E c \in Ensurers, autostart \in BOOLEAN : EnsureCall(c, autostart)
  \/ \E c \in Ensurers, ok \in BOOLEAN, pid \in Pids \cup {NoPid} :
        EnsureCheck(c, ok, pid)
  \/ \E c \in Ensurers, written \in BOOLEAN : EnsureWritePid(c, written)
  \/ \E c \in Ensurers, ok \in BOOLEAN, round \in EnsureRounds :
        EnsurePoll(c, ok, round)
  \/ \E c \in Ensurers : EnsureReturn(c)
  \/ \E b \in Pids : BridgeListen(b)
  \/ \E b \in Pids : BridgeExit(b)

SpecEnsure == InitEnsure /\ [][NextEnsure]_vars

Spec == SpecAuth

\* ------------------------------------------------------------ properties
InFlight(r) == req[r].pc \in {"agent", "listing"}

\* C1: a chat request whose normalized model is present and not "auto" starts
\* its agent with --model equal to that normalized model, and the pinning
\* state holds that value at the moment the agent is spawned, whatever the
\* other slots are doing.
C1_ExplicitModelUsedAndPinned ==
  [][\A r \in Slots : req[r].pc = "body" /\ req'[r].pc # "body" =>
       \A body \in Bodies :
       (/\ body.ok
        /\ normalizeModelId(body.model) \notin {Undef, Auto}
        /\ ChatBody(r, body))
       => /\ req'[r].pc = "agent"
          /\ req'[r].proc = "running"
          /\ ModelArg(req'[r].args) = normalizeModelId(body.model)
          /\ lastRequestedModel' = normalizeModelId(body.model)]_vars

\* two agents run at once, each with its own explicit model, and the pinning
\* state is the one of the request handled last
C1_Witness ==
  \E r, s \in Slots :
    /\ r # s
    /\ req[r].pc = "agent" /\ req[s].pc = "agent"
    /\ req[r].requested = <<"g">> /\ ModelArg(req[r].args) = <<"g">>
    /\ req[s].requested = <<"h">> /\ ModelArg(req[s].args) = <<"h">>
    /\ lastRequestedModel = <<"h">>

\* C2: under strict pinning, once an explicit model M has been sent and no
\* later explicit model replaced it, a chat request without a model, or with
\* "auto", starts its agent with --model M (never "auto", never the default
\* unless M is that).
C2_StrictPinWins ==
  [][\A r \in Slots : req[r].pc = "body" /\ req'[r].pc # "body" =>
       \A body \in Bodies :
       (/\ body.ok
        /\ config.strictModel
        /\ lastExplicit # Undef
        /\ normalizeModelId(body.model) \in {Undef, Auto}
        /\ ChatBody(r, body))
       => /\ req'[r].pc = "agent"
          /\ ModelArg(req'[r].args) = lastExplicit
          /\ ModelArg(req'[r].args) # Auto]_vars

C2_Witness ==
  \E r \in Slots :
    /\ config.strictModel
    /\ config.defaultModel = <<"d">>
    /\ req[r].pc = "agent"
    /\ req[r].requested = Auto
    /\ lastExplicit = <<"g">>
    /\ ModelArg(req[r].args) = <<"g">>

\* C3: a run ended by its timeout is a process failure: the chat completion
\* whose agent was killed by the timer answers 500.
C3_TimeoutIsFailure ==
  [][\A r \in Slots :
       (req[r].pc = "agent" /\ req[r].timer = "fired" /\ req'[r].pc = "done")
         => req'[r].resp.status = 500]_vars

\* C8: a chat request whose body parsed starts exactly one agent process and
\* never another; when that process exits with a non-zero code the answer is
\* 500 cursor_cli_error carrying the exit code and the trimmed error stream,
\* with no completion object and no SSE frame.
IsTrimOf(t, s) ==
  /\ t = <<>> \/ (~IsSpace(t[1]) /\ ~IsSpace(t[Len(t)]))
  /\ \E i, j \in 0..Len(s) :
        /\ i + Len(t) + j = Len(s)
        /\ \A k \in 1..Len(s) :
              IF k <= i \/ k > i + Len(t) THEN IsSpace(s[k]) ELSE s[k] = t[k - i]

C8_OneProcessAndCliError ==
  [][\A r \in Slots :
       /\ (req[r].pc = "body" /\ req'[r].pc = "agent") => req'[r].spawns = 1
       /\ (req[r].pc = "agent" /\ req'[r].pc \in {"agent", "done"})
             => req'[r].spawns = 1
       /\ (req[r].pc = "agent" /\ req'[r].pc = "done") =>
             \A code \in ExitCodes \ {0}, stdout \in Texts, stderr \in Texts :
               ChatClose(r, code, stdout, stderr) =>
                 /\ req'[r].resp.status = 500
                 /\ req'[r].resp.code = "cursor_cli_error"
                 /\ req'[r].resp.exit = code
                 /\ IsTrimOf(req'[r].resp.text, stderr)
                 /\ req'[r].resp.object = "error"
                 /\ req'[r].resp.frames = <<>>
                 /\ req'[r].resp.ended]_vars

C8_Witness ==
  \E r \in Slots :
    /\ req[r].pc = "done" /\ req[r].route = "chat" /\ req[r].spawns = 1
    /\ req[r].resp.status = 500 /\ req[r].resp.code = "cursor_cli_error"
    /\ req[r].resp.exit = 1 /\ req[r].resp.text = <<"x">>

\* C10: SSE frames are exactly delta(content), stop, [DONE], in that order,
\* written only once the agent has exited with code 0, and then the response
\* ends.
C10_FramesAfterExitZero ==
  [][\A r \in Slots :
       (req[r].pc = "agent" /\ req'[r].pc = "done"
        /\ req'[r].resp.frames # <<>>)
         => /\ Len(req'[r].resp.frames) = 3
            /\ req'[r].resp.frames[1].type = "delta"
            /\ req'[r].resp.frames[1].content = req'[r].resp.content
            /\ req'[r].resp.frames[2].type = "stop"
            /\ req'[r].resp.frames[3].type = "[DONE]"
            /\ req'[r].resp.ended
            /\ req[r].stream
            /\ req[r].proc = "running"
            /\ \E stdout \in Texts, stderr \in Texts :
                  ChatClose(r, 0, stdout, stderr)]_vars

\* C6: with a required key configured, a request of any method and path whose
\* Authorization header is absent or is not "Bearer <key>" is answered 401
\* at once: no process is spawned and the model cache, the pinning state
\* and the other requests stay as they were.
CarriesToken(h, key) ==
  /\ h # Undef
  /\ Len(h) >= 3
  /\ IsBearerWord(h[1])
  /\ \E n \in 1..(Len(h) - 2) :
       /\ \A i \in 2..(1 + n) : h[i] = " "
       /\ SubSeq(h, 2 + n, Len(h)) = key

Rejected(r) ==
  /\ req'[r].pc = "done"
  /\ req'[r].resp.status = 401
  /\ req'[r].resp.code = "unauthorized"
  /\ req'[r].spawns = 0
  /\ req'[r].proc = "none"
  /\ modelCache' = modelCache
  /\ lastRequestedModel' = lastRequestedModel
  /\ \A s \in Slots \ {r} : req'[s] = req[s]

ModelsDone(r) == req[r].route = "models" /\ req[r].pc = "done"

\* C7 (as stated): two answered model-list requests whose clock readings lie
\* within the freshness window never cost more than one upstream listing
\* between them.
C7_OneListingPerWindow ==
  \A r, s \in Slots :
    (/\ r # s
     /\ ModelsDone(r) /\ ModelsDone(s)
     /\ req[s].now - req[r].now \in 0..FreshWindow
     /\ req[r].spawns + req[s].spawns >= 1)
      => req[r].spawns + req[s].spawns = 1

\* C7 (amended): when the first request found no fresh cache, its listing
\* exited 0 without another listing in flight beside it, and the second
\* request arrives after the first was answered and within the window, the
\* second is answered from the cache: one upstream listing between them.
C7_SequentialOneListing ==
  \A r, s \in Slots :
    (/\ r # s
     /\ ModelsDone(r)
     /\ req[s].route = "models"
     /\ r \in req[s].doneBefore
     /\ req[r].spawns = 1
     /\ req[r].resp.status = 200
     /\ ~req[r].overlapped
     /\ req[s].now - req[r].now <= FreshWindow)
      => /\ req[s].spawns = 0
         /\ req[s].pc = "done"
         /\ req[s].resp.status = 200
         /\ req[r].spawns + req[s].spawns = 1

\* the second request comes exactly 5 minutes after the first
C7_Witness ==
  \E r, s \in Slots :
    /\ ModelsDone(r) /\ ModelsDone(s)
    /\ r \in req[s].doneBefore
    /\ req[r].spawns = 1 /\ req[r].resp.status = 200 /\ ~req[r].overlapped
    /\ req[s].now - req[r].now = FreshWindow
    /\ req[s].spawns = 0 /\ req[s].resp.status = 200
    /\ req[s].resp.data = req[r].resp.data
    /\ req[s].resp.data # <<>>

\* C9: a listing that exits non-zero answers 500 with an error envelope and
\* leaves the model cache as it is; with no other listing beside it the
\* cache is then still absent or stale, and a model-list request that finds
\* it so spawns the listing again.
C9_FailedListingKeepsCache ==
  [][\A r \in Slots :
       /\ (req[r].pc = "listing" /\ req'[r].pc = "done") =>
            \A code \in ExitCodes \ {0}, stdout \in Listings, stderr \in Texts :
              ListClose(r, code, stdout, stderr) =>
                /\ req'[r].resp.status = 500
                /\ req'[r].resp.object = "error"
                /\ req'[r].resp.code = "internal_error"
                /\ req'[r].resp.data = <<>>
                /\ modelCache' = modelCache
                /\ ~req[r].overlapped =>
                     (~modelCache'.present
                        \/ clock' - modelCache'.at > FreshWindow)
       /\ (/\ req[r].pc = "idle" /\ req'[r].route = "models"
           /\ (~modelCache.present \/ clock - modelCache.at > FreshWindow))
            => /\ req'[r].pc = "listing"
               /\ req'[r].spawns = 1
               /\ req'[r].proc = "running"]_vars

\* a failed listing left a stale entry in place and the next request is
\* listing again
C9_Witness ==
  \E r, s \in Slots :
    /\ ModelsDone(r)
    /\ req[r].resp.status = 500 /\ req[r].resp.code = "internal_error"
    /\ req[r].spawns = 1
    /\ modelCache.present /\ req[r].now - modelCache.at > FreshWindow
    /\ req[s].pc = "listing" /\ r \in req[s].doneBefore

\* ------------------------------------------------------------ cursor_cli_patch
\* C4: a cursor_cli_patch call with keepTemp false that created its temporary
\* directory has, once it has returned or thrown, neither the directory on
\* disk nor the worktree registered in the repository.
C4_CleanupOnEveryExit ==
  \A p \in Calls :
    (call[p].pc = "done" /\ call[p].tempDir # NoDir /\ ~call[p].keepTemp)
      => (call[p].tempDir \notin fs /\ call[p].tempDir \notin worktrees)

PreconditionErrors ==
  {"requires a git repository", "git status failed",
   "Working tree is not clean"}

\* the step of call p ended the call with a precondition error, having
\* created no directory, registered no worktree and invoked no agent
FailedEarly(p) ==
  /\ call'[p].pc = "done"
  /\ call'[p].outcome = "threw"
  /\ call'[p].error \in PreconditionErrors
  /\ call'[p].tempDir = NoDir
  /\ \A i \in 1..Len(call'[p].log) : call'[p].log[i].cmd = "status"
  /\ call'[p].error = "requires a git repository" => call'[p].log = <<>>
  /\ fs' = fs
  /\ worktrees' = worktrees

\* C5: a cursor_cli_patch call with no repository root, with a git status
\* that exits non-zero, or with a non-empty porcelain status and no
\* allowDirty, throws before a temporary directory is created, a worktree is
\* registered or the agent is invoked; with no repository root it has run no
\* command at all.
C5_PreconditionNoSideEffects ==
  [][\A p \in Calls :
       /\ (call[p].pc = "idle" /\ call'[p].pc # "idle")
            => (PatchCall(p, FALSE) => FailedEarly(p))
       /\ (call[p].pc = "status" /\ call'[p].pc # "status")
            => \A code \in {0, GitFailure, NullCode}, stdout \in StatusOutputs,
                  allowDirty \in BOOLEAN :
                  ( /\ \/ code = GitFailure
                       \/ ~allowDirty /\ stdout # <<>>
                    /\ StatusClose(p, code, stdout, allowDirty) )
                  => FailedEarly(p)]_vars

\* a call has failed on a dirty tree while another call's worktree exists
C5_Witness ==
  \E p, q \in Calls :
    /\ p # q
    /\ call[p].pc = "done"
    /\ call[p].error = "Working tree is not clean"
    /\ call[q].tempDir \in worktrees
    /\ call[q].tempDir \in fs

\* ------------------------------------------------------------ chat completions
\* C11: a chat completion answered 200, streamed or not, names in its model
\* field the word that followed --model in its agent's argument vector (for
\* the requested model "v/g" that word is "g"), and its content, which is also
\* the content of the first SSE frame, is the agent's standard output without
\* the white space around it.
C11_ModelAndContentEcho ==
  [][\A r \in Slots :
       /\ (req[r].pc = "body" /\ req'[r].pc = "agent") =>
            \A stream \in BOOLEAN :
              ChatBody(r, [ok |-> TRUE, model |-> <<"v", "/", "g">>,
                           stream |-> stream])
                => ModelArg(req'[r].args) = <<"g">>
       /\ (req[r].pc = "agent" /\ req'[r].pc = "done"
           /\ req'[r].resp.status = 200) =>
            /\ req'[r].resp.model = ModelArg(req[r].args)
            /\ req[r].stream => req'[r].resp.frames[1].content
                                  = req'[r].resp.content
            /\ \A code \in ExitCodes \cup {NullCode}, stdout \in Texts,
                  stderr \in Texts :
                  ChatClose(r, code, stdout, stderr)
                    => IsTrimOf(req'[r].resp.content, stdout)]_vars

\* a streamed completion for the requested model "g" with content "x", under
\* a configuration whose default model is another one
C11_Witness ==
  \E r \in Slots :
    /\ req[r].pc = "done" /\ req[r].route = "chat"
    /\ req[r].resp.status = 200
    /\ req[r].resp.model = <<"g">>
    /\ config.defaultModel = <<"d">>
    /\ req[r].resp.content = <<"x">>
    /\ req[r].resp.frames # <<>>

\* C12: the model a chat request resolves to, for each requested model
\* (absent, "auto", explicit), strict-pinning flag and pinning state (absent,
\* present) found when the body is read: an explicit model is itself; "auto"
\* is the pinned value under strict pinning with a value pinned, and "auto"
\* otherwise; an absent model is the pinned value if there is one, and the
\* configured default if not.
C12_FiveStepPolicy ==
  [][\A r \in Slots :
       (req[r].pc = "body" /\ req'[r].pc = "agent") =>
         LET requested == req'[r].requested
             pinned == lastRequestedModel
             model == ModelArg(req'[r].args)
         IN /\ requested \notin {Undef, Auto, <<>>} => model = requested
            /\ (requested = Auto /\ config.strictModel /\ pinned # Undef)
                 => model = pinned
            /\ (requested = Auto /\ ~(config.strictModel /\ pinned # Undef))
                 => model = Auto
            /\ (requested = Undef /\ pinned # Undef) => model = pinned
            /\ (requested = Undef /\ pinned = Undef)
                 => model = config.defaultModel
            /\ requested # <<>>
            /\ \E body \in Bodies :
                 body.ok /\ requested = normalizeModelId(body.model)
                   /\ ChatBody(r, body)]_vars

\* "auto" is sent with strict pinning off and a model pinned: the agent runs
\* with --model auto
C12_Witness ==
  \E r \in Slots :
    /\ req[r].pc = "agent"
    /\ req[r].requested = Auto
    /\ ~config.strictModel
    /\ lastRequestedModel = <<"g">>
    /\ ModelArg(req[r].args) = Auto
    /\ config.defaultModel = <<"d">>

\* ------------------------------------------------------------ pinning state
\* C13: the pinning state changes only in the step of a chat request that
\* reads a body with an explicit model other than "auto", and then to that
\* model; every other step (a body without model or with "auto", /health,
\* /v1/models, an unmatched route, a 401, a child closing) leaves it as it
\* is, and a pinned value never gives way to none.
C13_PinChangesOnlyOnExplicit ==
  [][/\ lastRequestedModel' # lastRequestedModel =>
          \E r \in Slots :
            /\ req[r].pc = "body" /\ req'[r].pc = "agent"
            /\ req'[r].requested \notin {Undef, Auto}
            /\ lastRequestedModel' = req'[r].requested
     /\ \A r \in Slots :
          (/\ req'[r] # req[r]
           /\ \/ req'[r].route \in {"health", "models", "other", "rejected"}
              \/ req'[r].pc = "agent" /\ req[r].pc = "body"
                   /\ req'[r].requested \in {Undef, Auto})
            => lastRequestedModel' = lastRequestedModel
     /\ lastRequestedModel # Undef => lastRequestedModel' # Undef]_vars

\* with "g" pinned, one request has been turned away with 401 and a chat
\* request that sent "auto" is running its agent
C13_Witness ==
  \E r, s \in Slots :
    /\ lastRequestedModel = <<"g">>
    /\ req[r].pc = "done" /\ req[r].route = "rejected"
    /\ req[s].pc = "agent" /\ req[s].requested = Auto

\* C14: a cursor_cli_patch call whose agent exited 0 and whose diff came out
\* empty has returned the "no changes" envelope, without error and without
\* patch section, and (keepTemp being false) its temporary directory and
\* worktree are gone once it has returned.
C14_NoChangesIsSuccess ==
  \A p \in Calls :
    (/\ call[p].pc = "done"
     /\ call[p].agent.code = 0
     /\ call[p].envelope.present
     /\ call[p].patchText = <<>>
     /\ ~call[p].keepTemp)
      => /\ call[p].outcome = "returned"
         /\ call[p].error = "none"
         /\ call[p].envelope.noChanges
         /\ ~call[p].envelope.hasPatch
         /\ call[p].tempDir \notin fs
         /\ call[p].tempDir \notin worktrees

\* ------------------------------------------------------------ run
\* C15: run resolves, with the code and the captured output, when the child
\* exits with a non-zero code (the chat handler then goes on to report that
\* code and the trimmed error stream); it rejects with 'Command not found'
\* when the binary is missing (ENOENT) and with the launch error itself for
\* any other launch failure (the outermost catch then reports that message).
C15_RunRejectsOnlyOnLaunchFailure ==
  [][\A r \in Slots :
       (req[r].pc = "agent" /\ req'[r].pc = "done") =>
         /\ \A code \in ExitCodes \ {0}, stdout \in Texts, stderr \in Texts :
              ChatClose(r, code, stdout, stderr) =>
                /\ RunResult(code, stdout, stderr)
                     = [code |-> code, stdout |-> stdout, stderr |-> stderr]
                /\ req'[r].resp.code # "internal_error"
                /\ req'[r].resp.exit = code
                /\ IsTrimOf(req'[r].resp.text, stderr)
         /\ ChildError(r, TRUE) =>
              /\ req'[r].resp.code = "internal_error"
              /\ req'[r].resp.text = <<"Command not found">>
         /\ ChildError(r, FALSE) =>
              /\ req'[r].resp.code = "internal_error"
              /\ req'[r].resp.text = SpawnError]_vars

\* one chat request met a missing binary, another an agent that exited 1
C15_Witness ==
  \E r, s \in Slots :
    /\ req[r].pc = "done" /\ req[r].route = "chat"
    /\ req[r].resp.code = "internal_error"
    /\ req[r].resp.text = <<"Command not found">>
    /\ req[s].pc = "done" /\ req[s].route = "chat"
    /\ req[s].resp.code = "cursor_cli_error" /\ req[s].resp.exit = 1

\* ------------------------------------------------------------ request handler
\* C16: a request has no response until its handler finishes, and when the
\* handler finishes it has one ended response with a status, which is not
\* written again; a malformed JSON body, a child that cannot be launched and
\* a failed model listing are answered 500 with code internal_error.
C16_OneResponseFaultsAre500 ==
  [][\A r \in Slots :
       /\ req'[r].pc # "done" => req'[r].resp = NoResp
       /\ req'[r].pc = "done" =>
            /\ req'[r].resp.ended
            /\ req'[r].resp.status \in {200, 401, 404, 500}
       /\ (req[r].pc = "done" /\ req'[r].pc = "done")
            => req'[r].resp = req[r].resp
       /\ ( /\ req[r].pc \in {"body", "agent", "listing"}
            /\ req'[r].pc = "done"
            /\ \/ \E b \in Bodies : ~b.ok /\ ChatBody(r, b)
               \/ \E e \in BOOLEAN : ChildError(r, e)
               \/ \E code \in ExitCodes \ {0}, stdout \in Listings,
                     stderr \in Texts \cup {<<"x">>} :
                     ListClose(r, code, stdout, stderr) )
            => /\ req'[r].resp.status = 500
               /\ req'[r].resp.code = "internal_error"
               /\ req'[r].resp.object = "error"]_vars

\* a malformed body and a missing agent binary have both been answered 500
C16_Witness ==
  \E r, s \in Slots :
    /\ req[r].pc = "done" /\ req[r].route = "chat"
    /\ req[r].resp.status = 500 /\ req[r].resp.code = "internal_error"
    /\ req[r].resp.text = <<"JSON">> /\ req[r].spawns = 0
    /\ req[s].pc = "done" /\ req[s].spawns = 1
    /\ req[s].resp.status = 500 /\ req[s].resp.code = "internal_error"
    /\ req[s].resp.text = <<"Command not found">>

\* ------------------------------------------------------------ prompt
\* a content without renderable text: an empty string, a value that is
\* neither string nor array, an array whose strings and text parts are empty
NonRenderable(content) ==
  \/ content.kind = "other"
  \/ content.kind = "string" /\ content.text = <<>>
  \/ /\ content.kind = "array"
     /\ \A i \in 1..Len(content.parts) :
          \/ content.parts[i].kind \in {"null", "image"}
          \/ content.parts[i].text = <<>>

\* C17: the prompt built from messages none of which has renderable text has
\* no System block and an empty transcript: it is the suffix alone, a blank
\* line followed by "Assistant:".
C17_EmptyTranscriptKeepsSuffix ==
  (/\ builtPrompt # Undef
   /\ \A i \in 1..Len(chatMessages) : NonRenderable(chatMessages[i].content))
    => /\ builtPrompt = <<"\n", "\n", "Assistant:">>
       /\ \A k \in 1..Len(builtPrompt) :
            builtPrompt[k] \notin {"System:", "User: ", "Assistant: ", "Tool: "}

\* a system message whose content is a number and a user message whose
\* content is an array of an image part and an empty text part
C17_Witness ==
  /\ builtPrompt # Undef
  /\ Len(chatMessages) = 2
  /\ chatMessages[1].role = "system"
  /\ chatMessages[1].content.kind = "other"
  /\ chatMessages[2].role = "user"
  /\ chatMessages[2].content.kind = "array"
  /\ chatMessages[2].content.parts = <<Part("image", <<>>), Part("text", <<>>)>>

\* ------------------------------------------------------------ model listing
\* the entries of the recognized lines of the listing, in the order of the
\* lines
LineModels ==
  LET split == SplitLines(listing)
      hits == SelectSeq([i \in 1..Len(split) |-> MatchLine(Trim(split[i]))],
                        LAMBDA m : m.ok)
  IN [i \in 1..Len(hits) |-> ModelOf(hits[i])]

FirstLine(id) ==
  CHOOSE i \in 1..Len(LineModels) :
    /\ LineModels[i].id = id
    /\ \A j \in 1..(i - 1) : LineModels[j].id # id

LastLine(id) ==
  CHOOSE i \in 1..Len(LineModels) :
    /\ LineModels[i].id = id
    /\ \A j \in (i + 1)..Len(LineModels) : LineModels[j].id # id

\* the listing that prints a list of models, one "<id> - <name>" per line
Render(models) ==
  Join([i \in 1..Len(models) |-> ListLine(models[i].id, models[i].name)],
       <<"\n">>)

\* the ids are pairwise distinct, they are those of the recognized lines, and
\* each carries the description of its last line
DedupLastWins(models) ==
  /\ \A i, j \in 1..Len(models) : i # j => models[i].id # models[j].id
  /\ {models[i].id : i \in 1..Len(models)}
       = {LineModels[i].id : i \in 1..Len(LineModels)}
  /\ \A i \in 1..Len(models) :
       models[i].name = LineModels[LastLine(models[i].id)].name

\* C18: the parsed list has pairwise distinct ids, a repeated id carries the
\* description of its last line, lines that are no model lines leave no
\* trace, and parsing the "<id> - <name>" rendering of the parsed list gives
\* that list again.
C18_ParseIdempotentDedup ==
  parsed.done =>
    /\ DedupLastWins(parsed.models)
    /\ parseCursorCliModels(Render(parsed.models)) = parsed.models

\* C19 (as stated): the entries stand in the order of the last lines of
\* their ids.
C19_OrderOfLastOccurrence ==
  parsed.done =>
    \A i, j \in 1..Len(parsed.models) :
      i < j => LastLine(parsed.models[i].id) < LastLine(parsed.models[j].id)

\* C19 (amended): the entries stand in the order of the first lines of their
\* ids, each with the description of the last line of its id.
C19_OrderOfFirstOccurrence ==
  parsed.done =>
    /\ DedupLastWins(parsed.models)
    /\ \A i, j \in 1..Len(parsed.models) :
         i < j => FirstLine(parsed.models[i].id)
                    < FirstLine(parsed.models[j].id)

\* "m - A", "n - A", "m - B": m comes first, with the description B
C19_Witness ==
  /\ parsed.done
  /\ listing = ListLine(<<"m">>, <<"A">>) \o <<"\n">>
                 \o ListLine(<<"n">>, <<"A">>) \o <<"\n">>
                 \o ListLine(<<"m">>, <<"B">>)
  /\ parsed.models = <<[id |-> <<"m">>, name |-> <<"B">>],
                       [id |-> <<"n">>, name |-> <<"A">>]>>

\* ------------------------------------------------------------ argument vector
\* the places of a word in an argument vector
Places(args, word) == {i \in 1..Len(args) : args[i] = word}

\* C20: the argument vector of a chat completion's agent is --print, then
\* --approve-mcps iff configured, then --force iff configured, then --mode
\* <mode> iff the mode is not agent, then --workspace <dir>, --model
\* <resolved>, --output-format text and the prompt as its last word; under
\* the default configuration it holds neither --force nor --approve-mcps.
C20_ArgumentVector ==
  [][\A r \in Slots :
       (req[r].pc = "body" /\ req'[r].pc = "agent") =>
         LET args == req'[r].args
             n == Len(args)
             approve == IF config.approveMcps THEN 1 ELSE 0
             force == IF config.force THEN 1 ELSE 0
             mode == IF config.mode # "agent" THEN 2 ELSE 0
         IN /\ n = 8 + approve + force + mode
            /\ args[1] = <<"--print">>
            /\ Places(args, <<"--approve-mcps">>)
                 = IF config.approveMcps THEN {2} ELSE {}
            /\ Places(args, <<"--force">>)
                 = IF config.force THEN {2 + approve} ELSE {}
            /\ Places(args, <<"--mode">>)
                 = IF config.mode # "agent" THEN {2 + approve + force} ELSE {}
            /\ config.mode # "agent" => args[3 + approve + force] = <<config.mode>>
            /\ args[n - 6] = <<"--workspace">>
            /\ args[n - 5] = WorkspaceWord
            /\ args[n - 4] = <<"--model">>
            /\ args[n - 3] = req'[r].model
            /\ args[n - 2] = <<"--output-format">>
            /\ args[n - 1] = <<"text">>
            /\ args[n] = PromptWord
            /\ config = DefaultConfig =>
                 /\ Places(args, <<"--force">>) = {}
                 /\ Places(args, <<"--approve-mcps">>) = {}]_vars

\* an agent started with every optional word: twelve words in all
C20_Witness ==
  \E r \in Slots :
    /\ req[r].pc = "agent"
    /\ config.approveMcps /\ config.force /\ config.mode = "ask"
    /\ Len(req[r].args) = 12
    /\ req[r].args[2] = <<"--approve-mcps">>
    /\ req[r].args[3] = <<"--force">>
    /\ req[r].args[4] = <<"--mode">>

\* ------------------------------------------------------------ patch pipeline
RepoCommands ==
  {"status", "worktree add", "worktree remove", "worktree remove --force"}

\* the agent ran in the temporary directory only, and nothing but git status
\* and git worktree add / remove ran in the repository root
AgentInTempOnly(log) ==
  \A i \in 1..Len(log) :
    /\ log[i].cmd = "agent" => log[i].cwd = "temp"
    /\ log[i].cwd = "repo" => log[i].cmd \in RepoCommands

\* C21: the agent of a cursor_cli_patch call runs in the call's temporary
\* directory, never in the repository root, and is started only once git
\* worktree add for that directory has exited 0, the directory then being a
\* registered worktree; only git status, git worktree add and git worktree
\* remove run in the repository root.
C21_AgentOnlyInWorktree ==
  [][\A p \in Calls :
       /\ AgentInTempOnly(call'[p].log)
       /\ (call[p].pc # "agent" /\ call'[p].pc = "agent") =>
            /\ call[p].pc = "wtAdd"
            /\ call[p].proc = "running"
            /\ call'[p].tempDir \in worktrees']_vars

\* ------------------------------------------------------------ routing
\* the request line matches one of the three routes
Routed(method, path) ==
  \/ method = "GET" /\ path \in {HealthPath, ModelsPath}
  \/ method = "POST" /\ path = ChatPath

\* the step started no process and left the cache and the pin alone
NoEffect(r) ==
  /\ req'[r].pc = "done"
  /\ req'[r].spawns = 0
  /\ \A s \in Slots : req'[s].proc = "running" => req[s].proc = "running"
  /\ modelCache' = modelCache
  /\ lastRequestedModel' = lastRequestedModel

NotFound(r) ==
  /\ req'[r].resp.status = 404
  /\ req'[r].resp.code = "not_found"
  /\ req'[r].resp.ended

Removals == {"worktree remove", "worktree remove --force"}

\* C23: a cursor_cli_patch call that has ended with keepTemp true, by return
\* or by error, has issued no git worktree remove, and its temporary
\* directory and its worktree registration are still there after the step
\* that ends it and after every later step.
C23_KeepTempKeepsWorktree ==
  [][\A p \in Calls :
       (call'[p].pc = "done" /\ call'[p].keepTemp) =>
         /\ \A i \in 1..Len(call'[p].log) : call'[p].log[i].cmd \notin Removals
         /\ call'[p].tempDir \in fs'
         /\ call'[p].tempDir \in worktrees => call'[p].tempDir \in worktrees']_vars

\* one call has thrown and one has returned its envelope, both with keepTemp,
\* and both directories and registrations are there
C23_Witness ==
  \E p, q \in Calls :
    /\ call[p].pc = "done" /\ call[p].keepTemp /\ call[p].outcome = "threw"
    /\ call[q].pc = "done" /\ call[q].keepTemp /\ call[q].outcome = "returned"
    /\ {call[p].tempDir, call[q].tempDir} \subseteq fs \cap worktrees
    /\ call[p].tempDir # call[q].tempDir

\* ------------------------------------------------------------ bridge start
Running(b) == bridges[b] \in {"starting", "up"}

\* C24: a cursor_bridge_start call whose health check succeeds returns
\* alreadyRunning, spawns nothing and leaves the pid file alone; and a call
\* spawns a bridge process only when none is running, so that no second
\* process is spawned while an earlier one has not become reachable yet.
C24_SpawnOnlyWhenNotRunning ==
  [][\A c \in Starters :
       (starter[c].pc = "check" /\ starter'[c].pc # "check") =>
         /\ \A pid \in Pids \cup {NoPid} :
              CheckUp(c, TRUE, pid) =>
                /\ starter'[c].result = "alreadyRunning"
                /\ bridges' = bridges
                /\ pidFile' = pidFile
         /\ bridges' # bridges => \A b \in Pids : ~Running(b)]_vars

\* ------------------------------------------------------------ concurrent pins
\* the agent of request r closes, no other chat request is being handled and
\* another one has been answered and not yet released
ClosesLast(r) ==
  /\ req[r].pc = "agent" /\ req'[r].pc = "done"
  /\ \A s \in Slots \ {r} : req[s].pc \notin {"body", "agent"}
  /\ \E s \in Slots \ {r} : req[s].pc = "done" /\ req[s].route = "chat"

\* C25 as stated: when chat requests with different explicit models are in
\* flight together, the pinning state after all have finished is the model of
\* the request whose agent process completed last.
C25_LastCompletionWins ==
  [][\A r \in Slots :
       (ClosesLast(r) /\ req[r].requested \notin {Undef, Auto})
         => lastRequestedModel' = req[r].requested]_vars

\* C25 amended: the pinning state is written when a request's body has been
\* read, before its agent is started, and not when the agent completes; after
\* concurrent chat requests with different explicit models have finished it
\* is the model of the request whose body was read last, whatever the order
\* in which the agents completed.
C25_LastBodyReadWins ==
  [][\A r \in Slots :
       (req[r].pc = "agent" /\ req'[r].pc = "done") =>
         /\ lastRequestedModel' = lastRequestedModel
         /\ lastRequestedModel' = lastExplicit']_vars

\* the request that sent "g" is still running its agent and will complete
\* last; the one that sent "h" was read after it, has been answered, and "h"
\* is pinned
C25_Witness ==
  \E r, s \in Slots :
    /\ req[r].pc = "agent" /\ req[r].requested = <<"g">>
    /\ ModelArg(req[r].args) = <<"g">>
    /\ req[s].pc = "done" /\ req[s].route = "chat"
    /\ req[s].resp.status = 200 /\ req[s].resp.model = <<"h">>
    /\ lastRequestedModel = <<"h">>

\* ------------------------------------------------------------ model listing
Fetching(rec) ==
  /\ rec.pc = "listing"
  /\ rec.proc = "running"
  /\ rec.spawns = 1
  /\ rec.args = <<(<<"--list-models">>)>>

\* C26: a GET /v1/models request that arrives while the cache is absent or
\* stale and another request's listing is still in flight starts a listing
\* of its own, the other one's keeps running; and no model-list request ever
\* starts more than one listing.
C26_NoSharedFetch ==
  [][\A r \in Slots :
       /\ req'[r].route = "models" => req'[r].spawns <= 1
       /\ (req[r].pc = "idle" /\ req'[r].route = "models") =>
            \A s \in Slots \ {r} :
              (req[s].pc = "listing" /\ IsStale(modelCache, clock)) =>
                /\ Fetching(req'[r])
                /\ req'[s].pc = "listing"
                /\ req'[s].proc = req[s].proc
                /\ req'[s].spawns = 1]_vars

\* two listings are in flight, one per request, over a stale cache
C26_Witness ==
  \E r, s \in Slots :
    /\ r # s
    /\ Fetching(req[r]) /\ Fetching(req[s])
    /\ req[r].overlapped /\ req[s].overlapped
    /\ modelCache.present
    /\ IsStale(modelCache, req[r].now) /\ IsStale(modelCache, req[s].now)

\* C27: a GET /v1/models request is answered from the cache, with no listing
\* started, iff a cache entry exists whose timestamp is at most 300000 ms
\* older than the request's clock reading; otherwise a listing is started,
\* and when it exits 0 the cache becomes the parsed list stamped with the
\* clock reading the request took before it started the listing.
C27_FreshIffWithinWindow ==
  [][\A r \in Slots :
       /\ (req[r].pc = "idle" /\ req'[r].route = "models") =>
            LET fresh == /\ modelCache.present
                         /\ clock - modelCache.at <= 300000
            IN /\ req'[r].now = clock
               /\ fresh => /\ req'[r].pc = "done" /\ req'[r].spawns = 0
                           /\ req'[r].resp.status = 200
                           /\ req'[r].resp.data = modelCache.models
                           /\ modelCache' = modelCache
               /\ ~fresh => Fetching(req'[r]) /\ modelCache' = modelCache
       /\ (req[r].pc = "listing" /\ req'[r].pc = "done") =>
            \A stdout \in Listings, stderr \in Texts :
              ListClose(r, 0, stdout, stderr) =>
                /\ modelCache' = [present |-> TRUE, at |-> req[r].now,
                                  models |-> parseCursorCliModels(stdout)]
                /\ req'[r].resp.status = 200
                /\ req'[r].resp.data = modelCache'.models]_vars

\* the cache holds a list stamped with the reading its request took before a
\* listing that ended later, and a request exactly 300000 ms after that
\* reading has been answered from it
C27_Witness ==
  \E r, s \in Slots :
    /\ ModelsDone(r) /\ req[r].spawns = 1 /\ req[r].resp.status = 200
    /\ modelCache.present /\ modelCache.at = req[r].now
    /\ modelCache.models = req[r].resp.data /\ modelCache.models # <<>>
    /\ ModelsDone(s) /\ req[s].spawns = 0
    /\ req[s].now = modelCache.at + 300000
    /\ req[s].resp.data = modelCache.models
    /\ clock > req[s].now

\* ------------------------------------------------------------ concurrent patches
Active(rec) == rec.pc \notin {"idle", "done"} /\ rec.tempDir # NoDir

InWorktree == {"agent", "add -N", "diff --patch", "diff --name-status"}

\* C28: cursor_cli_patch calls in progress together have distinct temporary
\* directories; the agent and the diff commands of a call run in that call's
\* own directory; and a step of another call, its cleanup included, neither
\* deletes the directory nor deregisters the worktree of a call that is
\* still in progress.
C28_OwnWorktreePerCall ==
  [][\A p, q \in Calls :
       p # q =>
         /\ (Active(call'[p]) /\ Active(call'[q]))
              => call'[p].tempDir # call'[q].tempDir
         /\ \A i \in 1..Len(call'[p].log) :
              call'[p].log[i].cmd \in InWorktree =>
                /\ call'[p].log[i].dir = call'[p].tempDir
                /\ call'[p].log[i].dir # call'[q].tempDir
         /\ (Active(call[q]) /\ call'[q] = call[q]) =>
              /\ call[q].tempDir \in fs => call[q].tempDir \in fs'
              /\ call[q].tempDir \in worktrees => call[q].tempDir \in worktrees'
              /\ call[q].tempDir \in dirty => call[q].tempDir \in dirty']_vars

\* one call is in its cleanup, its plain removal done, while the other is
\* taking its diff in its own worktree, which holds the agent's edits
C28_Witness ==
  \E p, q \in Calls :
    /\ call[p].pc = "rmForce"
    /\ call[q].pc = "diff"
    /\ call[p].tempDir # call[q].tempDir
    /\ call[q].tempDir \in fs \cap worktrees \cap dirty
    /\ call[q].log[Len(call[q].log)].dir = call[q].tempDir

\* ------------------------------------------------------------ cleanup order
\* the removals of a log come after every other command, the plain one first
\* and the forced one, if any, right after it
CleanupLast(log) ==
  \A i \in 1..Len(log) :
    /\ log[i].cmd = "worktree remove" =>
         \A j \in 1..Len(log) :
           (j < i => log[j].cmd \notin Removals)
             /\ (j > i => j = i + 1 /\ log[j].cmd = "worktree remove --force")
    /\ log[i].cmd = "worktree remove --force" =>
         i > 1 /\ log[i - 1].cmd = "worktree remove"

\* C29: the cleanup of a cursor_cli_patch call starts with the plain git
\* worktree remove, once every other command of the call has closed; the
\* forced removal is attempted iff the plain one exited non-zero; and the
\* temporary directory is there until the removals are over and deleted
\* right after them, whatever their exit codes.
C29_CleanupOrder ==
  [][\A p \in Calls :
       /\ CleanupLast(call'[p].log)
       /\ call'[p].pc \in {"rm", "rmForce"} =>
            /\ call'[p].tempDir \in fs'
            /\ ~call'[p].keepTemp
       /\ (call[p].pc # "rm" /\ call'[p].pc = "rm") =>
            /\ call[p].pc \in {"wtAdd", "agent", "addN", "diff", "nameStatus"}
            /\ call[p].proc \in {"running", "killed"}
            /\ call'[p].spawns = call[p].spawns + 1
       /\ (call[p].pc = "rm" /\ call'[p].pc # "rm") =>
            \A code \in {0, GitFailure, NullCode}, removed \in BOOLEAN :
              RmClose(p, code, removed) =>
                /\ (code = GitFailure) = (call'[p].pc = "rmForce")
                /\ (code # GitFailure) =
                     (call'[p].pc = "done" /\ call'[p].tempDir \notin fs')
       /\ (call[p].pc = "rmForce" /\ call'[p].pc # "rmForce") =>
            /\ call'[p].pc = "done"
            /\ call'[p].tempDir \notin fs']_vars

\* one call has ended after both removals and one after the plain removal
\* alone, each after its agent and its diffs, and both directories are gone
C29_Witness ==
  \E p, q \in Calls :
    /\ call[p].pc = "done" /\ call[q].pc = "done"
    /\ call[p].outcome = "returned" /\ call[q].outcome = "returned"
    /\ call[p].log[Len(call[p].log)].cmd = "worktree remove --force"
    /\ call[q].log[Len(call[q].log)].cmd = "worktree remove"
    /\ call[p].log[Len(call[p].log) - 2].cmd = "diff --name-status"
    /\ call[q].log[Len(call[q].log) - 1].cmd = "diff --name-status"
    /\ {call[p].tempDir, call[q].tempDir} \cap fs = {}

\* ------------------------------------------------------------ pipeline order
\* the command each step of the pipeline follows, and the error its failure
\* raises
Before ==
  [agent |-> "wtAdd", addN |-> "agent", diff |-> "addN", nameStatus |-> "diff"]

ErrorOf ==
  [wtAdd |-> "git worktree add failed",
   agent |-> "Cursor CLI failed inside worktree",
   addN |-> "git add -N failed",
   diff |-> "git diff failed"]

\* the step of call p has raised `error` and returned no envelope
Raised(p, error) ==
  /\ call'[p].pc \in {"rm", "done"}
  /\ call'[p].outcome = "threw"
  /\ call'[p].error = error
  /\ ~call'[p].envelope.present

\* C30: each step of cursor_cli_patch is started only by the exit 0 of the
\* step before it (agent after git worktree add, git add -N after the agent,
\* git diff --patch after git add -N, git diff --name-status after git diff
\* --patch), and a step that exits non-zero raises its own error, no
\* envelope being returned.
C30_EachFailureStops ==
  [][\A p \in Calls :
       /\ \A pc \in DOMAIN Before :
            (call[p].pc # pc /\ call'[p].pc = pc) =>
              /\ call[p].pc = Before[pc]
              /\ call[p].proc = "running"
       /\ \A pc \in DOMAIN ErrorOf :
            (call[p].pc = pc /\ call'[p].pc # pc /\ call[p].proc = "running")
              => \/ call'[p].pc \in DOMAIN Before
                 \/ Raised(p, ErrorOf[pc])
                 \/ pc = "agent" /\ Raised(p, "Command not found")]_vars

\* ------------------------------------------------------------ envelope
\* C31: the envelope a cursor_cli_patch call returns has a patch section iff
\* the output of git diff --patch is non-empty once its trailing whitespace
\* is trimmed, and the "no changes" message iff it is empty; when git diff
\* --name-status exits non-zero the call still returns its envelope, without
\* summary section.
C31_PatchSectionIffDiff ==
  [][\A p \in Calls :
       /\ (call[p].pc = "diff" /\ call'[p].pc = "nameStatus") =>
            \A stdout \in PatchOutputs \cup {<<>>}, keepTemp \in BOOLEAN :
              DiffClose(p, 0, stdout, keepTemp) =>
                (call'[p].patchText # <<>>) =
                  (\E i \in 1..Len(stdout) : ~IsSpace(stdout[i]))
       /\ (call[p].pc = "nameStatus" /\ call'[p].pc # "nameStatus") =>
            /\ call'[p].outcome = "returned"
            /\ call'[p].error = "none"
            /\ call'[p].envelope.present
            /\ call'[p].envelope.hasPatch = (call[p].patchText # <<>>)
            /\ call'[p].envelope.noChanges = (call[p].patchText = <<>>)
            /\ call'[p].envelope.hasPatch =>
                 call'[p].envelope.patch = call[p].patchText
            /\ \A stdout \in StatusOutputs, keepTemp \in BOOLEAN :
                 NameStatusClose(p, GitFailure, stdout, keepTemp) =>
                   call'[p].envelope.summary = <<>>]_vars

\* one call has returned a patch although git diff --name-status failed, so
\* without summary; the other, whose worktree was edited but whose diff output
\* trimmed to nothing, has returned "no changes" with its summary
C31_Witness ==
  \E p, q \in Calls :
    /\ call[p].outcome = "returned" /\ call[p].envelope.hasPatch
    /\ call[p].envelope.patch = <<"d", "i", "f", "f">>
    /\ call[p].envelope.summary = <<>>
    /\ call[q].outcome = "returned" /\ call[q].envelope.noChanges
    /\ call[q].tempDir \in dirty
    /\ call[q].envelope.summary # <<>>

\* ------------------------------------------------------------ prompt layout
SystemRoles == {"system", "developer"}

RoleLabel ==
  [user |-> "User: ", assistant |-> "Assistant: ", tool |-> "Tool: ",
   function |-> "Tool: "]

HasText(m) == messageContentToText(m.content) # <<>>

\* the texts of the system and developer messages, in their order
SystemTexts(messages) ==
  LET sys == SelectSeq(messages,
                       LAMBDA m : HasText(m) /\ m.role \in SystemRoles)
  IN [i \in 1..Len(sys) |-> messageContentToText(sys[i].content)]

\* the labelled lines of the conversation messages, in their order
TranscriptLines(messages) ==
  LET conv == SelectSeq(messages,
                        LAMBDA m : HasText(m) /\ m.role \in DOMAIN RoleLabel)
  IN [i \in 1..Len(conv) |->
        <<RoleLabel[conv[i].role]>> \o messageContentToText(conv[i].content)]

\* C32: the prompt is one leading System block made of the non-empty system
\* and developer texts in their original order, if there are any, then the
\* non-empty user, assistant and tool/function messages in their original
\* order, then "Assistant:"; messages without text or with another role
\* leave no trace.
C32_SystemBlockLeads ==
  builtPrompt # Undef =>
    LET sys == SystemTexts(chatMessages)
        block == IF sys = <<>> THEN <<>>
                 ELSE <<"System:", "\n">> \o Join(sys, <<"\n", "\n">>)
                        \o <<"\n", "\n">>
    IN /\ builtPrompt = block
                          \o Join(TranscriptLines(chatMessages), <<"\n", "\n">>)
                          \o <<"\n", "\n", "Assistant:">>
       /\ builtPrompt[Len(builtPrompt)] = "Assistant:"
       /\ sys # <<>> => builtPrompt[1] = "System:"

\* a developer message that follows a user message leads the prompt
C32_Witness ==
  /\ Len(chatMessages) = 2
  /\ chatMessages[1].role = "user"
  /\ chatMessages[2].role = "developer"
  /\ builtPrompt = <<"System:", "\n", "b", "\n", "\n", "User: ", "a",
                     "\n", "\n", "Assistant:">>

\* ------------------------------------------------------------ run: settlement
PositiveTimeout(i) == runs[i].timeoutMs.given /\ runs[i].timeoutMs.ms > 0

\* C33: a run invocation with a positive timeout eventually settles, given
\* that its timer fires unless cleared and that a killed child closes; a
\* child is killed by its timer only, so an invocation whose timeout is
\* undefined, zero or negative is never killed and settles only by an event
\* of a child that ended, or failed to launch, by itself.
C33_TimeoutForcesSettlement ==
  /\ \A i \in Invocations :
       (runs[i].pc = "called" /\ PositiveTimeout(i))
         ~> (runs[i].promise # "pending")
  /\ [][\A i \in Invocations :
          /\ runs'[i].kills > runs[i].kills =>
               PositiveTimeout(i) /\ runs[i].timer = "armed"
          /\ (runs[i].pc = "called" /\ ~PositiveTimeout(i)) =>
               /\ runs'[i].kills = 0
               /\ runs'[i].timer = "none"
               /\ runs'[i].promise # runs[i].promise =>
                    runs[i].proc = "running"]_vars

\* one invocation was settled by its timer: killed, closed and resolved; the
\* other, called with a negative timeout, still waits for its running child
C33_Witness ==
  \E i, j \in Invocations :
    /\ PositiveTimeout(i) /\ runs[i].kills = 1 /\ runs[i].timer = "fired"
    /\ runs[i].promise = "resolved"
    /\ runs[j].pc = "called" /\ runs[j].timeoutMs = Timeout(-1)
    /\ runs[j].proc = "running" /\ runs[j].promise = "pending"

C35_PinSurvivesFailure ==
  [][\A r \in Slots :
       /\ (req[r].pc = "body" /\ req'[r].pc = "agent"
             /\ req'[r].requested \notin {Undef, Auto}) =>
            /\ lastRequestedModel' = req'[r].requested
            /\ req'[r].model = req'[r].requested
            /\ req'[r].proc = "running" /\ req'[r].spawns = 1
       /\ (req[r].pc = "agent" /\ req'[r] # req[r]) =>
            /\ lastRequestedModel' = lastRequestedModel
            /\ req[r].requested \notin {Undef, Auto} =>
                 lastRequestedModel' # Undef]_vars

\* the only request there is sent "g" and has been answered 500 after its
\* agent exited 1, and "g" is pinned
C35_Witness ==
  \E r \in Slots :
    /\ req[r].pc = "done" /\ req[r].route = "chat"
    /\ req[r].resp.status = 500 /\ req[r].resp.code = "cursor_cli_error"
    /\ req[r].resp.exit = 1
    /\ \A s \in Slots \ {r} : req[s].pc = "idle"
    /\ lastRequestedModel = <<"g">>

\* ------------------------------------------------------------ --model
NonEmptyModel(m) == m # Undef /\ Len(m) > 0

\* C36: the word after --model of every chat agent is a non-empty model
\* identifier, taken from the request's normalized model, the pinned model
\* or the configured default, which is itself non-empty ("auto" when the
\* environment names none); the pinning state is absent or a non-empty
\* identifier other than "auto".
C36_ModelArgNeverEmpty ==
  [][/\ NonEmptyModel(config.defaultModel)
     /\ lastRequestedModel' # Undef =>
          NonEmptyModel(lastRequestedModel') /\ lastRequestedModel' # Auto
     /\ \A r \in Slots :
          /\ req'[r].pc = "agent" => NonEmptyModel(ModelArg(req'[r].args))
          /\ (req[r].pc = "body" /\ req'[r].pc = "agent") =>
               ModelArg(req'[r].args) \in
                 {req'[r].requested, lastRequestedModel, lastRequestedModel',
                  config.defaultModel}]_vars

\* one agent runs with the configured default "d", its request having named
\* no model before any was pinned; another runs with the pinned "g", its
\* request having sent "auto"
C36_Witness ==
  \E r, s \in Slots :
    /\ req[r].pc = "agent" /\ req[r].requested = Undef
    /\ ModelArg(req[r].args) = <<"d">> /\ config.defaultModel = <<"d">>
    /\ req[s].pc = "agent" /\ req[s].requested = Auto
    /\ ModelArg(req[s].args) = <<"g">> /\ lastRequestedModel = <<"g">>

\* ------------------------------------------------------------ cache stamps
\* C37 as stated: no replacement of the model cache installs a timestamp
\* earlier than the one of the entry it replaces.
C37_StampNeverDecreases ==
  [][modelCache.present => modelCache'.at >= modelCache.at]_vars

\* C37 amended: a replacement of the model cache installs the clock reading
\* its request took before its listing started, never a later one than the
\* current clock; the timestamp decreases only when the replacing request's
\* listing overlapped with another one, and never otherwise.
C37_StampIsRequestReading ==
  [][modelCache' # modelCache =>
       \E r \in Slots :
         /\ req[r].pc = "listing" /\ req'[r].pc = "done"
         /\ modelCache'.present
         /\ modelCache'.at = req[r].now
         /\ modelCache'.at <= clock
         /\ (modelCache.present /\ modelCache'.at < modelCache.at)
              => req[r].overlapped]_vars

\* the request that started first ended its listing last: the cache carries
\* its reading, earlier than the one of the other request, which had filled
\* the cache before
C37_Witness ==
  \E r, s \in Slots :
    /\ ModelsDone(r) /\ req[r].spawns = 1 /\ req[r].resp.status = 200
    /\ ModelsDone(s) /\ req[s].spawns = 1 /\ req[s].resp.status = 200
    /\ req[r].now < req[s].now
    /\ req[r].overlapped /\ req[s].overlapped
    /\ modelCache.present /\ modelCache.at = req[r].now
    /\ modelCache.models = req[r].resp.data
    /\ modelCache.models # req[s].resp.data

\* ------------------------------------------------------------ one run, one settlement
\* C38: each run invocation spawns exactly one process and settles at most
\* once; the kill signal is sent at most once, and only by the timer firing
\* while the process has neither closed nor failed to launch; the timer is
\* cancelled by the close and by the error handler; an error or close event
\* that comes after the settlement leaves the promise as it was.
C38_SettlesOnce ==
  [][\A i \in Invocations :
       LET old == runs[i]
           new == runs'[i]
       IN /\ new.settles <= 1
          /\ new.pc # "idle" => new.spawns = 1
          /\ new.pc = "idle" => new.spawns = 0
          /\ new.kills <= 1
          /\ new.kills > old.kills =>
               /\ old.timer = "armed" /\ new.timer = "fired"
               /\ old.proc = "running"
               /\ old.closes = 0 /\ old.errors = 0
          /\ (new.errors > old.errors \/ new.closes > old.closes) =>
               /\ new.timer # "armed"
               /\ old.timer = "armed" => new.timer = "cleared"
          /\ old.promise # "pending" =>
               /\ new.promise = old.promise
               /\ new.code = old.code
               /\ new.settles = old.settles]_vars

\* one invocation whose launch failed and whose close came after the
\* rejection, beside one that was killed by its timer and then closed
C38_Witness ==
  \E i, j \in Invocations :
    /\ runs[i].errors = 1 /\ runs[i].closes = 1
    /\ runs[i].promise = "rejected" /\ runs[i].settles = 1
    /\ runs[i].timer = "cleared" /\ runs[i].kills = 0
    /\ runs[j].kills = 1 /\ runs[j].closes = 1 /\ runs[j].timer = "fired"
    /\ runs[j].promise = "resolved" /\ runs[j].settles = 1
    /\ runs[j].spawns = 1

====
